---- MODULE Spec2Model ----
(***************************************************************************)
(* Model of the yaap streaming core:                                       *)
(*   - StreamingPostprocessor and process_streaming_response               *)
(*       (src/utils/streaming.py)                                          *)
(*   - remove_thinking_tokens, remove_thinking_tokens_advanced and         *)
(*       postprocess_response (src/utils/helpers.py)                       *)
(*   - ThinkingAnimator / StreamingThinkingHandler                         *)
(*       (src/utils/thinking_animation.py)                                 *)
(*   - ChatSession.stream_ai_response_formatted (src/chat/session.py)      *)
(*   - ChatSession.start and handle_command (src/chat/session.py)          *)
(*   - MessageFormatter.format_response (src/chat/formatter.py)            *)
(* A coroutine runs from one suspension to the next in one step, as under  *)
(* asyncio; the terminal may refuse a frame of the animation (the print of *)
(* thinking_animation.py:38 or :69 raises), its other writes succeed.      *)
(* Text is a sequence of one-character strings; indices into text are      *)
(* 0-based as in the Python source (text[i+1] is Python's text[i]).        *)
(***************************************************************************)
EXTENDS Integers, Sequences, FiniteSets, TLC

VARIABLES
    \* ---- StreamingPostprocessor fields (streaming.py:18-24)
    remove_thinking,
    buffer,
    in_thinking_block,
    thinking_depth,
    thinking_content_length,
    callback_calls,     \* invocations of thinking_callback, in order
    \* ---- the stream fed to the postprocessor and what came out of it
    input,              \* the whole text of the stream
    fed,                \* number of characters of input already passed in
    nChunks,            \* number of process_chunk calls made
    visible,            \* concatenation of the process_chunk return values
    emittedPos,         \* input positions (0-based) of the characters in visible
    transitions,        \* "enter"/"exit" each time in_thinking_block flipped
    lastCall,           \* record describing the last postprocessor call
    finalized,          \* finalize() has been called
    finalOut,           \* what finalize() returned
    \* ---- ThinkingAnimator / StreamingThinkingHandler (thinking_animation.py)
    thinking_active,    \* StreamingThinkingHandler.thinking_active
    is_active,          \* ThinkingAnimator.is_active
    animation_task,     \* ThinkingAnimator.animation_task: a task number, 0 for None
    current_frame,      \* ThinkingAnimator.current_frame
    tasks,              \* the state of each _animate task created so far
    nTicks,             \* wake-ups of _animate tasks from their sleep so far
    terminal,           \* what was written to the terminal, in order
    \* ---- ChatSession.stream_ai_response_formatted (session.py:101-190)
    sPc,                \* where the call is
    use_llm,            \* ChatSession.use_llm
    user_input,         \* the argument of the call
    enable_postprocessing,   \* llm_client.enable_postprocessing
    original_postprocessing, \* the local of that name, "unset" before line 121
    full_response,      \* the local full_response
    chunk_count,        \* the local chunk_count
    shown,              \* characters of the processed response printed so far
    outcome,            \* how the call ended: none, a returned text, a raised error
    received,           \* the chunks generate_stream has yielded, concatenated
    source_error,       \* the exception generate_stream raised, "none" if none
    \* ---- coroutines calling the handler or the animator directly
    callers,            \* per caller: where it stands
    calls,              \* every call made so far, in order
    lastDone,           \* the number in calls of the call that ended last
    \* ---- one StreamingPostprocessor reused over several streams
    opLog,              \* every call made on it since construction, in order
    \* ---- ChatSession.start (session.py:305-339)
    lPc,                \* where the loop is: reading, ended, raised
    conversation_history,   \* ChatSession.conversation_history
    entered,            \* what input() returned last, or the exception it raised
    nLines,             \* number of input() calls made
    screen,             \* what the loop and the commands printed, in order
    sent,               \* the message list prepared for the LLM last (session.py:115)
    \* ---- process_streaming_response (streaming.py:141-172)
    gen,                \* the generator: its source, its position, what it yielded
    \* ---- remove_thinking_tokens_advanced (helpers.py:38-103)
    adv                 \* the call: its argument, its locals, its position

ppVars == <<remove_thinking, buffer, in_thinking_block, thinking_depth,
            thinking_content_length, callback_calls, input, fed, nChunks,
            visible, emittedPos, transitions, lastCall, finalized, finalOut>>

animVars == <<thinking_active, is_active, animation_task, current_frame, tasks,
              nTicks, terminal>>

sessVars == <<sPc, use_llm, user_input, enable_postprocessing, original_postprocessing,
              full_response, chunk_count, shown, outcome, received, source_error>>

callVars == <<callers, calls, lastDone>>

lifeVars == <<opLog>>

loopVars == <<lPc, conversation_history, entered, nLines, screen, sent>>

utilVars == <<gen, adv>>

vars == <<ppVars, animVars, sessVars, callVars, lifeVars, loopVars, utilVars>>

(***************************************************************************)
(* Bounds of the model.                                                    *)
(***************************************************************************)
MaxTokens == 3
MaxChunks == 4
MaxRawChunks == 3
MaxTicks == 2
MaxCalls == 4

(***************************************************************************)
(* Program constants.                                                      *)
(***************************************************************************)
OpenTag == <<"<", "t", "h", "i", "n", "k", ">">>
CloseTag == <<"<", "/", "t", "h", "i", "n", "k", ">">>
PartialOpenTag == <<"<", "t", "h", "i", "n", "k">>
OpenSkip == 7
CloseSkip == 8
LookAhead == 10
TailWindow == 10
SafetyKeep == 20

(***************************************************************************)
(* Text helpers: Python's str.lower, slicing and str.find.                 *)
(***************************************************************************)
Lower(c) ==
    CASE c = "T" -> "t"
      [] c = "H" -> "h"
      [] c = "I" -> "i"
      [] c = "N" -> "n"
      [] c = "K" -> "k"
      [] c = "X" -> "x"
      [] c = "Y" -> "y"
      [] c = "Z" -> "z"
      [] OTHER -> c

Min(S) == CHOOSE x \in S : \A y \in S : x <= y

\* text[a:b] for 0 <= a, with b clipped to the length as Python does
Slice(text, a, b) ==
    LET hi == IF b > Len(text) THEN Len(text) ELSE b
    IN  IF a >= hi THEN <<>> ELSE SubSeq(text, a + 1, hi)

\* text[-n:]
LastChars(text, n) ==
    IF Len(text) <= n THEN text ELSE SubSeq(text, Len(text) - n + 1, Len(text))

\* does pat occur in text.lower() at 0-based offset k
MatchAt(text, pat, k) ==
    /\ k + Len(pat) <= Len(text)
    /\ \A j \in 1..Len(pat) : Lower(text[k + j]) = pat[j]

\* text[i:].lower().find(pat): offset relative to i, or -1
Find(text, pat, i) ==
    LET hits == {k \in 0..(Len(text) - i - Len(pat)) : MatchAt(text, pat, i + k)}
    IN  IF hits = {} THEN -1 ELSE Min(hits)

(***************************************************************************)
(* helpers.py: remove_thinking_tokens and postprocess_response.            *)
(***************************************************************************)
IsSpace(c) == c \in {" ", "\n", "\t", "\r"}

\* re.sub(r'<think>.*?</think>', '', text, flags=IGNORECASE|DOTALL)
RECURSIVE RemoveBlocks(_)
RemoveBlocks(text) ==
    LET s == Find(text, OpenTag, 0)
    IN  IF s < 0 THEN text
        ELSE LET e == Find(text, CloseTag, s + Len(OpenTag))
             IN  IF e < 0 THEN text
                 ELSE Slice(text, 0, s)
                      \o RemoveBlocks(Slice(text, s + Len(OpenTag) + e + Len(CloseTag),
                                            Len(text)))

\* re.sub(r'\n{3,}', '\n\n', text): a run of 3 or more newlines becomes 2
RECURSIVE CollapseNewlines(_)
CollapseNewlines(text) ==
    IF Len(text) < 3 THEN text
    ELSE IF text[1] = "\n" /\ text[2] = "\n" /\ text[3] = "\n"
         THEN CollapseNewlines(Tail(text))
         ELSE <<Head(text)>> \o CollapseNewlines(Tail(text))

RECURSIVE LStrip(_)
LStrip(text) ==
    IF text # <<>> /\ IsSpace(Head(text)) THEN LStrip(Tail(text)) ELSE text

RECURSIVE RStrip(_)
RStrip(text) ==
    IF text # <<>> /\ IsSpace(text[Len(text)])
    THEN RStrip(SubSeq(text, 1, Len(text) - 1))
    ELSE text

\* str.strip()
Strip(text) == RStrip(LStrip(text))

remove_thinking_tokens(text) ==
    IF text = <<>> THEN text
    ELSE Strip(CollapseNewlines(RemoveBlocks(text)))

postprocess_response(text, removeThinking) ==
    IF text = <<>> THEN text
    ELSE IF removeThinking THEN remove_thinking_tokens(text) ELSE text

(***************************************************************************)
(* streaming.py: the scanning loop of process_chunk (lines 51-103).        *)
(* st carries the fields the loop updates, the output built so far, the    *)
(* buffer offsets of the characters put into output, and the flips of      *)
(* in_thinking_block.                                                      *)
(***************************************************************************)
RECURSIVE ScanLoop(_, _, _)
ScanLoop(buf, i, st) ==
    IF i >= Len(buf) THEN st
    ELSE
    LET think_start == Find(buf, OpenTag, i)
        think_end == Find(buf, CloseTag, i)
    IN  IF think_start = 0 /\ ~st.in_thinking_block
        THEN ScanLoop(buf, i + OpenSkip,
                      [st EXCEPT !.in_thinking_block = TRUE,
                                 !.thinking_depth = 1,
                                 !.thinking_content_length = 0,
                                 !.flips = Append(@, "enter")])
        ELSE IF think_end = 0 /\ st.in_thinking_block
        THEN LET d == st.thinking_depth - 1
             IN  ScanLoop(buf, i + CloseSkip,
                      IF d <= 0
                      THEN [st EXCEPT !.in_thinking_block = FALSE,
                                      !.thinking_depth = 0,
                                      !.flips = Append(@, "exit")]
                      ELSE [st EXCEPT !.thinking_depth = d])
        ELSE IF st.in_thinking_block /\ think_start >= 0
                /\ (think_end < 0 \/ think_start < think_end)
        THEN ScanLoop(buf, i + think_start + OpenSkip,
                      [st EXCEPT !.thinking_depth = @ + 1])
        ELSE IF ~st.in_thinking_block
        THEN IF think_start >= 0 /\ think_start < LookAhead
             THEN ScanLoop(buf, i + think_start,
                      [st EXCEPT !.output = @ \o Slice(buf, i, i + think_start),
                                 !.emitted = @ \o [k \in 1..think_start |-> i + k - 1]])
             ELSE ScanLoop(buf, i + 1,
                      [st EXCEPT !.output = Append(@, buf[i + 1]),
                                 !.emitted = Append(@, i)])
        ELSE ScanLoop(buf, i + 1,
                      [st EXCEPT !.thinking_content_length = @ + 1])

\* streaming.py:105-113: what stays in self.buffer after the loop
KeepBuffer(buf, inBlock) ==
    IF inBlock \/ (Len(buf) > 0 /\ Find(LastChars(buf, TailWindow), PartialOpenTag, 0) >= 0)
    THEN buf
    ELSE LET keep == IF Len(buf) - SafetyKeep > 0 THEN Len(buf) - SafetyKeep ELSE 0
             processed_length == Len(buf) - keep
         IN  Slice(buf, processed_length, Len(buf))

\* streaming.py:46-115: process_chunk with remove_thinking set, on the state
\* (buf, inBlock, depth, tcl): the new field values, the returned output, the
\* offsets in buf + chunk of the characters returned, and the block flips
ScanResult(buf, inBlock, depth, tcl, chunk) ==
    LET r == ScanLoop(buf \o chunk, 0,
                      [in_thinking_block |-> inBlock, thinking_depth |-> depth,
                       thinking_content_length |-> tcl,
                       output |-> <<>>, emitted |-> <<>>, flips |-> <<>>])
    IN  [buffer |-> KeepBuffer(buf \o chunk, r.in_thinking_block),
         in_thinking_block |-> r.in_thinking_block,
         thinking_depth |-> r.thinking_depth,
         thinking_content_length |-> r.thinking_content_length,
         output |-> r.output, emitted |-> r.emitted, flips |-> r.flips]

\* streaming.py:43-44: with remove_thinking unset the chunk is returned as is
PassResult(buf, inBlock, depth, tcl, chunk) ==
    [buffer |-> buf, in_thinking_block |-> inBlock, thinking_depth |-> depth,
     thinking_content_length |-> tcl,
     output |-> chunk,
     emitted |-> [j \in 1..Len(chunk) |-> Len(buf) + j - 1],
     flips |-> <<>>]

\* process_chunk as it would be without the remove_thinking test of line 43
ProcessChunkResult_NoFlagTest(rt, buf, inBlock, depth, tcl, chunk) ==
    ScanResult(buf, inBlock, depth, tcl, chunk)

\* streaming.py:33-115: process_chunk
ProcessChunkResult(rt, buf, inBlock, depth, tcl, chunk) ==
    IF ~rt THEN PassResult(buf, inBlock, depth, tcl, chunk)
    ELSE ScanResult(buf, inBlock, depth, tcl, chunk)

\* streaming.py:117-138: the value finalize() returns
FinalizeResult(rt, buf, inBlock) ==
    IF ~rt THEN buf
    ELSE IF buf # <<>> /\ ~inBlock
         THEN postprocess_response(buf, TRUE)
         ELSE <<>>

(***************************************************************************)
(* The streams fed to the postprocessor: texts made of up to MaxTokens     *)
(* tokens, and the texts the specification names as examples.              *)
(***************************************************************************)
Tokens == {OpenTag, CloseTag, <<"X">>, <<" ">>}

RECURSIVE Flatten(_)
Flatten(ts) == IF ts = <<>> THEN <<>> ELSE Head(ts) \o Flatten(Tail(ts))

TokenTexts == {Flatten(ts) : ts \in UNION {[1..n -> Tokens] : n \in 0..MaxTokens}}

ExampleP2 ==
    <<"a", "b", "<", "t", "h", "i", "n", "k", ">", "X", "<", "/", "t", "h", "i", "n", "k", ">", "c", "d">>
ExampleP3 ==
    <<"<", "t", "h", "i", "n", "k", ">", "<", "t", "h", "i", "n", "k", ">", "X",
      "<", "/", "t", "h", "i", "n", "k", ">", "Y", "<", "/", "t", "h", "i", "n", "k", ">", "Z">>
ExampleP4 ==
    <<"a", "b", "c", "<", "t", "h", "i", "n", "k", ">",
      "h", "i", "d", "d", "e", "n", " ", "f", "o", "r", "e", "v", "e", "r">>
ExampleE2E ==
    <<"H", "e", "l", "l", "o", " ", "<", "t", "h", "i", "n", "k", ">",
      "r", "e", "a", "s", "o", "n", "i", "n", "g", ".", ".", ".",
      "<", "/", "t", "h", "i", "n", "k", ">", " ", "w", "o", "r", "l", "d">>

ExampleTexts == {ExampleP2, ExampleP3, ExampleP4, ExampleE2E}

Inputs == TokenTexts \cup ExampleTexts

StreamText == Slice(input, 0, fed)
TotalVisible == visible \o finalOut

NoCall == [op |-> "none", chunk |-> <<>>, ret |-> <<>>,
           preBuffer |-> <<>>, preInBlock |-> FALSE, preDepth |-> 0]

(***************************************************************************)
(* StreamingPostprocessor.__init__ (streaming.py:18-24)                    *)
(***************************************************************************)
InitPostprocessor(rt) ==
    /\ remove_thinking = rt
    /\ buffer = <<>>
    /\ in_thinking_block = FALSE
    /\ thinking_depth = 0
    /\ thinking_content_length = 0
    /\ callback_calls = <<>>

\* nothing fed yet
InitStream(texts) ==
    /\ input \in texts
    /\ fed = 0
    /\ nChunks = 0
    /\ visible = <<>>
    /\ emittedPos = <<>>
    /\ transitions = <<>>
    /\ lastCall = NoCall
    /\ finalized = FALSE
    /\ finalOut = <<>>

(***************************************************************************)
(* StreamingPostprocessor.process_chunk (streaming.py:33-115), called with *)
(* the next k characters of the stream.                                    *)
(***************************************************************************)
process_chunk(k) ==
    LET chunk == Slice(input, fed, fed + k)
        bufStart == fed - Len(buffer)
    IN
    /\ ~finalized
    /\ nChunks < MaxChunks
    /\ fed' = fed + k
    /\ nChunks' = nChunks + 1
    /\ \E r \in {ProcessChunkResult(remove_thinking, buffer, in_thinking_block,
                                    thinking_depth, thinking_content_length, chunk)} :
          /\ buffer' = r.buffer
          /\ in_thinking_block' = r.in_thinking_block
          /\ thinking_depth' = r.thinking_depth
          /\ thinking_content_length' = r.thinking_content_length
          /\ visible' = visible \o r.output
          /\ emittedPos' = emittedPos
                           \o [j \in 1..Len(r.emitted) |-> bufStart + r.emitted[j]]
          /\ transitions' = transitions \o r.flips
          /\ lastCall' = [op |-> "process_chunk", chunk |-> chunk, ret |-> r.output,
                          preBuffer |-> buffer, preInBlock |-> in_thinking_block,
                          preDepth |-> thinking_depth]
    /\ UNCHANGED <<remove_thinking, callback_calls, input, finalized, finalOut>>
    /\ UNCHANGED <<animVars, sessVars, callVars, lifeVars, loopVars, utilVars>>

ProcessChunk == \E k \in 0..(Len(input) - fed) : process_chunk(k)

(***************************************************************************)
(* StreamingPostprocessor.finalize (streaming.py:117-138)                  *)
(***************************************************************************)
Finalize ==
    /\ ~finalized
    /\ finalized' = TRUE
    /\ \E ret \in {FinalizeResult(remove_thinking, buffer, in_thinking_block)} :
          /\ finalOut' = ret
          /\ lastCall' = [op |-> "finalize", chunk |-> <<>>, ret |-> ret,
                          preBuffer |-> buffer, preInBlock |-> in_thinking_block,
                          preDepth |-> thinking_depth]
    /\ buffer' = <<>>
    /\ UNCHANGED <<remove_thinking, in_thinking_block, thinking_depth,
                   thinking_content_length, callback_calls, input, fed, nChunks,
                   visible, emittedPos, transitions>>
    /\ UNCHANGED <<animVars, sessVars, callVars, lifeVars, loopVars, utilVars>>

(***************************************************************************)
(* thinking_animation.py: ThinkingAnimator and StreamingThinkingHandler.   *)
(* The _animate tasks are numbered in the order asyncio.create_task made   *)
(* them; animation_task is the number of the task the animator refers to,  *)
(* NoTask for None.                                                        *)
(***************************************************************************)
animation_frames ==
    <<"thinking", "thinking.", "thinking..", "thinking...", "thinking..", "thinking.">>

FrameWrite(n) == [kind |-> "frame", text |-> animation_frames[n + 1]]
ClearWrite == [kind |-> "clear", text |-> ""]
CharWrite(c) == [kind |-> "char", text |-> c]
CharWrites(text) == [j \in 1..Len(text) |-> CharWrite(text[j])]

NoTask == 0

\* a task that has not ended: created and not yet run, suspended in the sleep
\* of line 65, or cancelled and not yet run again
Alive(state) == state \in {"scheduled", "sleeping", "cancelling"}

\* ThinkingAnimator.__init__ and StreamingThinkingHandler.__init__
InitAnimator ==
    /\ thinking_active = FALSE
    /\ is_active = FALSE
    /\ animation_task = NoTask
    /\ current_frame = 0
    /\ tasks = <<>>
    /\ nTicks = 0
    /\ terminal = <<>>

\* the handler and its animator as one value, with the tasks and the terminal;
\* at tells where a call on it stands: "returned", "raised", or "await", the
\* call being suspended at line 53 until task waits has ended;
\* frame_write_raises says whether the terminal refuses the next frame
Anim ==
    [thinking_active |-> thinking_active, is_active |-> is_active,
     animation_task |-> animation_task, current_frame |-> current_frame,
     tasks |-> tasks, terminal |-> terminal,
     at |-> "returned", waits |-> NoTask, frame_write_raises |-> FALSE]

SetAnim(a) ==
    /\ thinking_active' = a.thinking_active
    /\ is_active' = a.is_active
    /\ animation_task' = a.animation_task
    /\ current_frame' = a.current_frame
    /\ tasks' = a.tasks
    /\ terminal' = a.terminal

\* print(...) of a sequence of writes
Print_(a, writes) == [a EXCEPT !.terminal = @ \o writes]

\* start_animation as it would be without the test of lines 31-32
start_animation_NoGuard(a) ==
    [a EXCEPT !.is_active = TRUE,
              !.current_frame = 0,
              !.terminal = Append(@, FrameWrite(0)),
              !.tasks = Append(@, "scheduled"),
              !.animation_task = Len(a.tasks) + 1]

\* ThinkingAnimator.start_animation (thinking_animation.py:29-41); when the
\* print of line 38 raises, lines 34-35 have run and line 41 has not
start_animation(a) ==
    IF a.is_active THEN a
    ELSE IF a.frame_write_raises
    THEN [a EXCEPT !.is_active = TRUE,
                   !.current_frame = 0,
                   !.at = "raised"]
    ELSE [a EXCEPT !.is_active = TRUE,
                   !.current_frame = 0,
                   !.terminal = Append(@, FrameWrite(0)),
                   !.tasks = Append(@, "scheduled"),
                   !.animation_task = Len(a.tasks) + 1]

\* Task.cancel() (line 51): a task that has ended is left as it is
task_cancel(a, t) ==
    IF Alive(a.tasks[t]) THEN [a EXCEPT !.tasks[t] = "cancelling"] ELSE a

\* line 53 as it would be if the task were not awaited
AwaitDone_NoWait(a, t) == TRUE

\* line 53: await self.animation_task goes on once the task has ended
AwaitDone(a, t) == ~Alive(a.tasks[t])

\* stop_animation from the end of the await of line 53 (lines 52-59): the
\* CancelledError of a cancelled task is swallowed, the exception a task
\* died with is raised again and leaves the method
stop_resume(a, t) ==
    IF a.tasks[t] = "failed"
    THEN [a EXCEPT !.at = "raised", !.waits = NoTask]
    ELSE [a EXCEPT !.animation_task = NoTask,
                   !.terminal = Append(@, ClearWrite),
                   !.at = "returned", !.waits = NoTask]

\* ThinkingAnimator.stop_animation (thinking_animation.py:43-59), up to its
\* return or to its suspension at line 53
stop_animation(a) ==
    IF ~a.is_active THEN a
    ELSE IF a.animation_task = NoTask
    THEN [a EXCEPT !.is_active = FALSE,
                   !.terminal = Append(@, ClearWrite)]
    ELSE \* lines 48-53
         IF AwaitDone(task_cancel(a, a.animation_task), a.animation_task)
         THEN stop_resume([task_cancel(a, a.animation_task)
                               EXCEPT !.is_active = FALSE],
                          a.animation_task)
         ELSE [task_cancel(a, a.animation_task)
                   EXCEPT !.is_active = FALSE,
                          !.at = "await", !.waits = a.animation_task]

\* StreamingThinkingHandler.handle_thinking_event (lines 86-98); nothing
\* follows the awaited start_animation or stop_animation
handle_thinking_event(a, event) ==
    IF event = "enter"
    THEN IF ~a.thinking_active
         THEN start_animation([a EXCEPT !.thinking_active = TRUE])
         ELSE a
    ELSE IF event = "exit"
    THEN IF a.thinking_active
         THEN stop_animation([a EXCEPT !.thinking_active = FALSE])
         ELSE a
    ELSE a

\* cleanup as it would be if it left the animation alone
cleanup_Skipped(a) == a

\* StreamingThinkingHandler.cleanup (lines 100-104)
cleanup(a) ==
    IF a.thinking_active
    THEN stop_animation([a EXCEPT !.thinking_active = FALSE])
    ELSE a

\* _animate as it would be if it advanced by two frames at a time
animate_step_SkipFrame(a, t) ==
    IF a.tasks[t] = "scheduled"
    THEN [a EXCEPT !.tasks[t] = IF a.is_active THEN "sleeping" ELSE "finished"]
    ELSE IF a.tasks[t] = "cancelling"
    THEN [a EXCEPT !.tasks[t] = "finished"]
    ELSE IF ~a.is_active
    THEN [a EXCEPT !.tasks[t] = "finished"]
    ELSE IF a.frame_write_raises
    THEN [a EXCEPT !.current_frame = (@ + 2) % Len(animation_frames),
                   !.tasks[t] = "failed"]
    ELSE [a EXCEPT !.current_frame = (@ + 2) % Len(animation_frames),
                   !.terminal = Append(@, FrameWrite((a.current_frame + 2)
                                                     % Len(animation_frames)))]

\* one run of task t of ThinkingAnimator._animate (lines 61-71), from one
\* suspension to the next: the first run reaches the sleep of line 65, a
\* wake-up renders the next frame and sleeps again, a cancelled task ends
\* (before its first run, or by the CancelledError caught at line 70); when
\* the print of line 69 raises, the exception ends the task
animate_step(a, t) ==
    IF a.tasks[t] = "scheduled"
    THEN [a EXCEPT !.tasks[t] = IF a.is_active THEN "sleeping" ELSE "finished"]
    ELSE IF a.tasks[t] = "cancelling"
    THEN [a EXCEPT !.tasks[t] = "finished"]
    ELSE IF ~a.is_active
    THEN [a EXCEPT !.tasks[t] = "finished"]
    ELSE IF a.frame_write_raises
    THEN [a EXCEPT !.current_frame = (@ + 1) % Len(animation_frames),
                   !.tasks[t] = "failed"]
    ELSE [a EXCEPT !.current_frame = (@ + 1) % Len(animation_frames),
                   !.terminal = Append(@, FrameWrite((a.current_frame + 1)
                                                     % Len(animation_frames)))]

\* the task running stream_ai_response_formatted is suspended at an await
MainSuspended == sPc \in {"streaming", "display"}

\* the event loop runs an _animate task: every other task is suspended, since
\* each action runs a task up to its next suspension; a sleeping task wakes
\* at most MaxTicks times in all
Animate ==
    /\ \E t \in 1..Len(tasks) :
          /\ Alive(tasks[t])
          /\ IF tasks[t] = "sleeping"
             THEN /\ nTicks < MaxTicks
                  /\ nTicks' = nTicks + 1
                  /\ \E raises \in BOOLEAN :
                        SetAnim(animate_step(
                            [Anim EXCEPT !.frame_write_raises = raises], t))
             ELSE /\ SetAnim(animate_step(Anim, t))
                  /\ UNCHANGED nTicks
    /\ UNCHANGED <<ppVars, sessVars, callVars, lifeVars, loopVars, utilVars>>

(***************************************************************************)
(* formatter.py: MessageFormatter.format_response.                         *)
(***************************************************************************)
\* shutil.get_terminal_size().columns where the size is unknown
TerminalColumns == 80

\* MessageFormatter.max_width (formatter.py:15)
max_width == Min({TerminalColumns, 100})

LIGHT_PURPLE == "ESC[38;5;183m"
RESET == "ESC[0m"

\* textwrap's replace_whitespace: every whitespace character becomes a space
Munge(text) == [j \in 1..Len(text) |-> IF IsSpace(text[j]) THEN " " ELSE text[j]]

\* textwrap splits the text into chunks, the runs of spaces and the words
\* between them: the end of the chunk that holds position i
RECURSIVE ChunkEnd(_, _)
ChunkEnd(text, i) ==
    IF i + 1 >= Len(text) THEN Len(text)
    ELSE IF (text[i + 2] = " ") # (text[i + 1] = " ") THEN i + 1
    ELSE ChunkEnd(text, i + 1)

\* TextWrapper._wrap_chunks, the inner loop: whole chunks are put on the
\* line that began at start while they fit in width
RECURSIVE TakeChunks(_, _, _, _)
TakeChunks(text, j, start, width) ==
    IF j < Len(text) /\ ChunkEnd(text, j) - start <= width
    THEN TakeChunks(text, ChunkEnd(text, j), start, width)
    ELSE j

\* TextWrapper._wrap_chunks, the outer loop, from position i with the lines
\* made so far: a run of spaces at the start of a line after the first is
\* dropped, a chunk longer than width is cut (break_long_words), the run of
\* spaces at the end of a line is dropped, an empty line is not kept
RECURSIVE WrapLines(_, _, _, _)
WrapLines(text, i, width, lines) ==
    IF i >= Len(text) THEN lines
    ELSE LET start == IF text[i + 1] = " " /\ lines # <<>>
                      THEN ChunkEnd(text, i) ELSE i
             whole == TakeChunks(text, start, start, width)
             cut   == whole < Len(text) /\ ChunkEnd(text, whole) - whole > width
             stop  == IF cut THEN start + width ELSE whole
             line  == Slice(text, start, stop)
             kept  == IF cut /\ stop = whole THEN line
                      ELSE IF line # <<>> /\ line[Len(line)] = " "
                      THEN Slice(text, start,
                                 CHOOSE k \in start..stop :
                                    /\ \A q \in k..(stop - 1) : text[q + 1] = " "
                                    /\ (k = start \/ text[k] # " "))
                      ELSE line
         IN  IF start >= Len(text) THEN lines
             ELSE WrapLines(text, stop, width,
                            IF kept = <<>> THEN lines ELSE Append(lines, kept))

RECURSIVE JoinLines(_)
JoinLines(lines) ==
    IF lines = <<>> THEN <<>>
    ELSE IF Len(lines) = 1 THEN lines[1]
    ELSE lines[1] \o <<"\n">> \o JoinLines(Tail(lines))

\* textwrap.fill(text, width)
Fill(text, width) == JoinLines(WrapLines(Munge(text), 0, width, <<>>))

\* MessageFormatter._format_assistant_message (formatter.py:39-47); each
\* colour code is kept as one element of the text
format_response(text) == <<LIGHT_PURPLE>> \o Fill(text, max_width) \o <<RESET>>

(***************************************************************************)
(* session.py: ChatSession.stream_ai_response_formatted (lines 101-190).   *)
(* Each action runs the code from one suspension of the task to the next.  *)
(***************************************************************************)
\* the non-empty chunks llm_client.generate_stream may yield
RawChunks == {OpenTag, CloseTag, <<"X">>}

\* what the user typed (session.py:312), stripped and not empty
UserInputs == {<<"Y">>, <<"h", "i", "!">>, <<"h", "e", "l", "l", "o">>}

\* ChatSession._get_dummy_response (session.py:198-210)
get_dummy_response(typed) ==
    LET responses == <<
        <<"I", "'", "m", " ", "a", "n", " ", "A", "I", " ", "a", "s",
          "s", "i", "s", "t", "a", "n", "t", ",", " ", "I", "'", "m",
          " ", "r", "e", "a", "d", "y", " ", "t", "o", " ", "h", "e",
          "l", "p", "!", " ", "Y", "o", "u", " ", "s", "a", "i", "d",
          ":", " ", "'">>
        \o typed \o
        <<"'">>,
        <<"T", "h", "a", "t", "'", "s", " ", "i", "n", "t", "e", "r",
          "e", "s", "t", "i", "n", "g", "!", " ", "I", "'", "m", " ",
          "s", "t", "i", "l", "l", " ", "l", "e", "a", "r", "n", "i",
          "n", "g", ",", " ", "b", "u", "t", " ", "I", " ", "a", "p",
          "p", "r", "e", "c", "i", "a", "t", "e", " ", "y", "o", "u",
          " ", "s", "h", "a", "r", "i", "n", "g", " ", "t", "h", "a",
          "t", ".">>,
        <<"I", " ", "u", "n", "d", "e", "r", "s", "t", "a", "n", "d",
          " ", "y", "o", "u", "'", "r", "e", " ", "a", "s", "k", "i",
          "n", "g", " ", "a", "b", "o", "u", "t", " ", "'">>
        \o typed \o
        <<"'", ".", " ", "A", "s", " ", "a", " ", "s", "i", "m", "p",
          "l", "e", " ", "A", "I", ",", " ", "I", "'", "m", " ", "h",
          "e", "r", "e", " ", "t", "o", " ", "a", "s", "s", "i", "s",
          "t", " ", "y", "o", "u", ".">>,
        <<"T", "h", "a", "n", "k", " ", "y", "o", "u", " ", "f", "o",
          "r", " ", "y", "o", "u", "r", " ", "m", "e", "s", "s", "a",
          "g", "e", ".", " ", "I", "'", "m", " ", "a", "n", " ", "A",
          "I", " ", "a", "s", "s", "i", "s", "t", "a", "n", "t", " ",
          "r", "e", "a", "d", "y", " ", "t", "o", " ", "h", "e", "l",
          "p", " ", "w", "i", "t", "h", " ", "y", "o", "u", "r", " ",
          "q", "u", "e", "s", "t", "i", "o", "n", "s", ".">>,
        <<"I", " ", "s", "e", "e", " ", "y", "o", "u", " ", "m", "e",
          "n", "t", "i", "o", "n", "e", "d", " ", "'">>
        \o typed \o
        <<"'", ".", " ", "I", "'", "m", " ", "h", "e", "r", "e", " ",
          "t", "o", " ", "h", "e", "l", "p", " ", "h", "o", "w", "e",
          "v", "e", "r", " ", "I", " ", "c", "a", "n", "!">>
        >>
    IN  responses[(Len(typed) % Len(responses)) + 1]

Returned(text) == [kind |-> "returned", value |-> text]
Raised(error) == [kind |-> "raised", value |-> <<error>>]
NoOutcome == [kind |-> "none", value |-> <<>>]

InitSessionVars ==
    /\ sPc = "idle"
    /\ use_llm \in BOOLEAN
    /\ user_input \in UserInputs
    /\ enable_postprocessing \in BOOLEAN
    /\ original_postprocessing = "unset"
    /\ full_response = <<>>
    /\ chunk_count = 0
    /\ shown = 0
    /\ outcome = NoOutcome
    /\ received = <<>>
    /\ source_error = "none"

\* a call on the handler made from where a stands, a call that has returned
Resumed(a) == [a EXCEPT !.at = "returned", !.waits = NoTask,
                        !.frame_write_raises = FALSE]

\* lines 181-190 as they would be if the error were raised again
fallback_Raise(a, original) ==
    /\ SetAnim(a)
    /\ enable_postprocessing' = original
    /\ outcome' = Raised("RuntimeError")
    /\ sPc' = "done"
    /\ UNCHANGED <<full_response, shown>>

\* lines 181-190: the flag is restored, the dummy response streamed through
\* the formatter and returned
fallback(a, original) ==
    /\ SetAnim(Print_(a, CharWrites(format_response(get_dummy_response(user_input)))))
    /\ enable_postprocessing' = original
    /\ outcome' = Returned(get_dummy_response(user_input))
    /\ sPc' = "done"
    /\ UNCHANGED <<full_response, shown>>

\* lines 176-190, the except branch entered from where a stands: cleanup
\* returns, or is suspended in stop_animation, or raises and so leaves the
\* call before the flag is restored
except_branch(a, original) ==
    \E b \in {cleanup(Resumed(a))} :
        IF b.at = "returned" THEN fallback(b, original)
        ELSE /\ SetAnim(b)
             /\ enable_postprocessing' = FALSE
             /\ UNCHANGED <<full_response, shown>>
             /\ IF b.at = "await"
                THEN sPc' = "cleanup_wait" /\ UNCHANGED outcome
                ELSE sPc' = "done" /\ outcome' = Raised("OSError")

\* lines 103-134: without an LLM the dummy response is streamed and returned;
\* otherwise the flag is saved and cleared and the animation entered, and the
\* task waits for the first chunk; when the enter raises, line 176 catches it
SBegin ==
    /\ sPc = "idle"
    /\ IF ~use_llm
       THEN /\ fallback(Anim, enable_postprocessing)
            /\ UNCHANGED original_postprocessing
       ELSE /\ original_postprocessing' = enable_postprocessing
            /\ \E raises \in BOOLEAN :
               \E a \in {handle_thinking_event(
                            [Anim EXCEPT !.frame_write_raises = raises], "enter")} :
                  IF a.at = "raised"
                  THEN except_branch(a, enable_postprocessing)
                  ELSE /\ SetAnim(a)
                       /\ enable_postprocessing' = FALSE
                       /\ sPc' = "streaming"
                       /\ UNCHANGED <<outcome, full_response, shown>>
    /\ UNCHANGED <<nTicks, use_llm, user_input, received, source_error,
                   chunk_count>>
    /\ UNCHANGED <<ppVars, callVars, lifeVars, loopVars, utilVars>>

\* lines 140-146: a chunk arrives
SRawChunk ==
    /\ sPc = "streaming"
    /\ chunk_count < MaxRawChunks
    /\ \E raw_chunk \in RawChunks :
          /\ full_response' = full_response \o raw_chunk
          /\ received' = received \o raw_chunk
    /\ chunk_count' = chunk_count + 1
    /\ UNCHANGED <<sPc, use_llm, user_input, enable_postprocessing,
                   original_postprocessing, shown, outcome, source_error>>
    /\ UNCHANGED <<ppVars, animVars, callVars, lifeVars, loopVars, utilVars>>

\* lines 163-174 as they would be without the assignment of line 163 and
\* with the chunks as received returned
finish_call_Raw(a, processed_response) ==
    /\ UNCHANGED full_response
    /\ SetAnim(cleanup(a))
    /\ enable_postprocessing' = original_postprocessing
    /\ outcome' = Returned(full_response)
    /\ sPc' = "done"
    /\ UNCHANGED shown

\* lines 163-174: cleanup, restore the flag, return the processed response;
\* thinking_active is false once line 149 has returned, so this cleanup
\* returns at once
finish_call(a, processed_response) ==
    /\ full_response' = processed_response
    /\ SetAnim(cleanup(a))
    /\ enable_postprocessing' = original_postprocessing
    /\ outcome' = Returned(processed_response)
    /\ sPc' = "done"
    /\ UNCHANGED shown

\* lines 152-161, from where a stands: the whole response is postprocessed
\* and its first character printed; an empty processed response goes
\* straight to lines 163-174
after_exit(a) ==
    \E processed_response \in {postprocess_response(full_response, TRUE)} :
        IF processed_response = <<>>
        THEN finish_call(a, processed_response)
        ELSE /\ SetAnim(Print_(a, <<CharWrite(processed_response[1])>>))
             /\ shown' = 1
             /\ sPc' = "display"
             /\ UNCHANGED <<full_response, enable_postprocessing, outcome>>

\* lines 148-149: the stream is exhausted and the animation exited: the exit
\* returns, or is suspended in stop_animation, or raises into line 176
SRawEnd ==
    /\ sPc = "streaming"
    /\ \E a \in {handle_thinking_event(Anim, "exit")} :
          IF a.at = "await"
          THEN /\ SetAnim(a)
               /\ sPc' = "exit_wait"
               /\ UNCHANGED <<full_response, enable_postprocessing, outcome, shown>>
          ELSE IF a.at = "raised"
          THEN except_branch(a, original_postprocessing)
          ELSE after_exit(a)
    /\ UNCHANGED <<nTicks, use_llm, user_input, received, source_error,
                   original_postprocessing, chunk_count>>
    /\ UNCHANGED <<ppVars, callVars, lifeVars, loopVars, utilVars>>

\* the task awaited at line 53 for the exit of line 149 has ended
SExitResume ==
    /\ sPc = "exit_wait"
    /\ AwaitDone(Anim, animation_task)
    /\ \E a \in {stop_resume(Anim, animation_task)} :
          IF a.at = "raised"
          THEN except_branch(a, original_postprocessing)
          ELSE after_exit(a)
    /\ UNCHANGED <<nTicks, use_llm, user_input, received, source_error,
                   original_postprocessing, chunk_count>>
    /\ UNCHANGED <<ppVars, callVars, lifeVars, loopVars, utilVars>>

\* lines 159-174: after the sleep the next character is printed, or, after the
\* last one, the call cleans up and returns
SDisplay ==
    /\ sPc = "display"
    /\ \E processed_response \in {postprocess_response(full_response, TRUE)} :
          IF shown < Len(processed_response)
          THEN /\ SetAnim(Print_(Anim, <<CharWrite(processed_response[shown + 1])>>))
               /\ shown' = shown + 1
               /\ UNCHANGED <<sPc, full_response, enable_postprocessing, outcome>>
          ELSE finish_call(Anim, processed_response)
    /\ UNCHANGED <<nTicks, use_llm, user_input, received, source_error,
                   original_postprocessing, chunk_count>>
    /\ UNCHANGED <<ppVars, callVars, lifeVars, loopVars, utilVars>>

\* lines 176-190: generate_stream raised an Exception while the task waited
\* for a chunk, a RuntimeError whatever went wrong (openai_client.py:153-154)
SRawError ==
    /\ sPc = "streaming"
    /\ source_error' = "RuntimeError"
    /\ except_branch(Anim, original_postprocessing)
    /\ UNCHANGED <<nTicks, use_llm, user_input, received, original_postprocessing,
                   chunk_count>>
    /\ UNCHANGED <<ppVars, callVars, lifeVars, loopVars, utilVars>>

\* the task awaited at line 53 for the cleanup of line 178 has ended
SCleanupResume ==
    /\ sPc = "cleanup_wait"
    /\ AwaitDone(Anim, animation_task)
    /\ \E a \in {stop_resume(Anim, animation_task)} :
          IF a.at = "raised"
          THEN /\ SetAnim(a)
               /\ sPc' = "done"
               /\ outcome' = Raised("OSError")
               /\ UNCHANGED <<full_response, enable_postprocessing, shown>>
          ELSE fallback(a, original_postprocessing)
    /\ UNCHANGED <<nTicks, use_llm, user_input, received, source_error,
                   original_postprocessing, chunk_count>>
    /\ UNCHANGED <<ppVars, callVars, lifeVars, loopVars, utilVars>>

\* the task is cancelled (asyncio.CancelledError) or interrupted
\* (KeyboardInterrupt) while it waits for a chunk or sleeps between two
\* characters: neither is an Exception, so line 176 does not catch it and it
\* leaves the call at once
SCancel ==
    /\ MainSuspended
    /\ outcome' = Raised("CancelledError")
    /\ sPc' = "done"
    /\ UNCHANGED <<use_llm, user_input, enable_postprocessing,
                   original_postprocessing, full_response, chunk_count, shown,
                   received, source_error>>
    /\ UNCHANGED <<ppVars, animVars, callVars, lifeVars, loopVars, utilVars>>

(***************************************************************************)
(* Coroutines that call the handler and the animator of                    *)
(* thinking_animation.py.  A call runs up to its return or up to its       *)
(* suspension at line 53; calls records every call with the state it       *)
(* began in and the state it ended in.                                     *)
(***************************************************************************)
HandlerOps == {"enter", "exit", "cleanup"}
AnimatorOps == {"start_animation", "stop_animation"}

Ready == [pc |-> "ready", waits |-> NoTask, call |-> 0]

\* the method op called on the handler or on its animator
Apply(op, a) ==
    IF op = "cleanup" THEN cleanup(a)
    ELSE IF op = "start_animation" THEN start_animation(a)
    ELSE IF op = "stop_animation" THEN stop_animation(a)
    ELSE handle_thinking_event(a, op)

InitCallers(n) ==
    /\ callers = [c \in 1..n |-> Ready]
    /\ calls = <<>>
    /\ lastDone = 0

\* caller c calls op; the terminal may refuse the frame a start prints
Call(c, op) ==
    /\ callers[c].pc = "ready"
    /\ Len(calls) < MaxCalls
    /\ \E raises \in BOOLEAN :
       \E a \in {Apply(op, [Anim EXCEPT !.frame_write_raises = raises])} :
          /\ SetAnim(a)
          /\ calls' = Append(calls, [caller |-> c, op |-> op, pre |-> Anim,
                                     at |-> a.at, end |-> Resumed(a)])
          /\ IF a.at = "await"
             THEN /\ callers' = [callers EXCEPT ![c] =
                        [pc |-> "await", waits |-> a.waits, call |-> Len(calls) + 1]]
                  /\ UNCHANGED lastDone
             ELSE /\ lastDone' = Len(calls) + 1
                  /\ UNCHANGED callers
    /\ UNCHANGED nTicks
    /\ UNCHANGED <<ppVars, sessVars, lifeVars, loopVars, utilVars>>

\* the task caller c awaits at line 53 has ended: its call goes on to its end
CallResume(c) ==
    /\ callers[c].pc = "await"
    /\ AwaitDone(Anim, callers[c].waits)
    /\ \E a \in {stop_resume(Anim, callers[c].waits)} :
          /\ SetAnim(a)
          /\ calls' = [calls EXCEPT ![callers[c].call].at = a.at,
                                    ![callers[c].call].end = Resumed(a)]
    /\ lastDone' = callers[c].call
    /\ callers' = [callers EXCEPT ![c] = Ready]
    /\ UNCHANGED nTicks
    /\ UNCHANGED <<ppVars, sessVars, lifeVars, loopVars, utilVars>>

(***************************************************************************)
(* Specifications.                                                         *)
(***************************************************************************)
\* the session and the animator at rest, for the postprocessor on its own
SessionVarsUnused ==
    /\ sPc = "unused"
    /\ use_llm = FALSE
    /\ user_input = <<>>
    /\ enable_postprocessing = TRUE
    /\ original_postprocessing = "unset"
    /\ full_response = <<>>
    /\ chunk_count = 0
    /\ shown = 0
    /\ outcome = NoOutcome
    /\ received = <<>>
    /\ source_error = "none"

\* no reused postprocessor and no chat loop
LoopUnused ==
    /\ opLog = <<>>
    /\ lPc = "unused"
    /\ conversation_history = <<>>
    /\ entered = <<>>
    /\ nLines = 0
    /\ screen = <<>>
    /\ sent = <<>>
    /\ gen = [pc |-> "unused"]
    /\ adv = [pc |-> "unused"]

SessionUnused == InitAnimator /\ InitCallers(0) /\ SessionVarsUnused /\ LoopUnused

Init == InitPostprocessor(TRUE) /\ InitStream(Inputs) /\ SessionUnused

Next == ProcessChunk \/ Finalize

Spec == Init /\ [][Next]_vars

InitPassthrough == InitPostprocessor(FALSE) /\ InitStream(Inputs) /\ SessionUnused

SpecPassthrough == InitPassthrough /\ [][Next]_vars

\* one call of stream_ai_response_formatted; the session has no
\* StreamingPostprocessor of its own
InitSession ==
    /\ InitPostprocessor(TRUE) /\ InitStream({<<>>})
    /\ InitAnimator
    /\ InitCallers(0)
    /\ InitSessionVars
    /\ LoopUnused

NextSession ==
    \/ SBegin \/ SRawChunk \/ SRawEnd \/ SExitResume \/ SDisplay
    \/ SRawError \/ SCleanupResume \/ SCancel
    \/ Animate

SpecSession == InitSession /\ [][NextSession]_vars

\* one coroutine that sends events to a StreamingThinkingHandler, one after
\* the other, while the _animate tasks run
InitHandler ==
    /\ InitPostprocessor(TRUE) /\ InitStream({<<>>})
    /\ InitAnimator
    /\ InitCallers(1)
    /\ SessionVarsUnused
    /\ LoopUnused

NextHandler ==
    \/ \E op \in HandlerOps : Call(1, op)
    \/ CallResume(1)
    \/ Animate

SpecHandler == InitHandler /\ [][NextHandler]_vars

\* two coroutines that call one handler and its animator as they please
InitAnimatorCalls ==
    /\ InitPostprocessor(TRUE) /\ InitStream({<<>>})
    /\ InitAnimator
    /\ InitCallers(2)
    /\ SessionVarsUnused
    /\ LoopUnused

NextAnimator ==
    \/ \E c \in 1..2 : \E op \in HandlerOps \cup AnimatorOps : Call(c, op)
    \/ \E c \in 1..2 : CallResume(c)
    \/ Animate

SpecAnimator == InitAnimatorCalls /\ [][NextAnimator]_vars

(***************************************************************************)
(* Reference reading of a stream (specification 4.1): markers are matched  *)
(* case-insensitively left to right, an open raises the depth, a close     *)
(* lowers it, text at depth 0 is visible.  Used only to state properties.  *)
(***************************************************************************)
RefStart == [depth |-> 0, out |-> <<>>, stray |-> FALSE, deepest |-> 0, enterAt |-> -1]

RECURSIVE RefScan(_, _, _)
RefScan(text, i, st) ==
    IF i >= Len(text) THEN st
    ELSE IF MatchAt(text, OpenTag, i)
    THEN RefScan(text, i + Len(OpenTag),
                 [st EXCEPT !.depth = @ + 1,
                            !.deepest = IF st.depth + 1 > @ THEN st.depth + 1 ELSE @,
                            !.enterAt = IF st.depth = 0 THEN i ELSE @])
    ELSE IF MatchAt(text, CloseTag, i)
    THEN RefScan(text, i + Len(CloseTag),
                 IF st.depth > 0 THEN [st EXCEPT !.depth = @ - 1]
                 ELSE [st EXCEPT !.stray = TRUE])
    ELSE RefScan(text, i + 1,
                 IF st.depth = 0 THEN [st EXCEPT !.out = Append(@, text[i + 1])] ELSE st)

Ref(text) == RefScan(text, 0, RefStart)

\* no close marker at depth 0
WellFormed(text) == ~Ref(text).stray

\* the last n characters of text are a proper prefix of a marker
EndsWithPartial(text, n) ==
    /\ 1 <= n /\ n <= Len(text)
    /\ \E tag \in {OpenTag, CloseTag} :
          /\ n < Len(tag)
          /\ \A j \in 1..n : Lower(text[Len(text) - n + j]) = tag[j]

NoPartialTail(text) == \A n \in 1..(Len(CloseTag) - 1) : ~EndsWithPartial(text, n)

Contains(text, pat) == Find(text, pat, 0) >= 0

Range(f) == {f[j] : j \in DOMAIN f}

\* the text before the last process_chunk call
PrevText == Slice(input, 0, fed - Len(lastCall.chunk))

\* one process_chunk call on the whole text, then finalize, on a fresh postprocessor
OneShotVisible(text) ==
    LET r == ProcessChunkResult(TRUE, <<>>, FALSE, 0, 0, text)
    IN  r.output \o FinalizeResult(TRUE, r.buffer, r.in_thinking_block)

(***************************************************************************)
(* C1 (P1, no leakage): once the stream is finalized, the process_chunk    *)
(* outputs followed by finalize()'s output contain neither marker.         *)
(***************************************************************************)
C1_NoLeakage ==
    finalized => ~Contains(TotalVisible, OpenTag) /\ ~Contains(TotalVisible, CloseTag)

(***************************************************************************)
(* C2 (P2, chunk-boundary invariance): whatever the chunking, the total    *)
(* visible output equals that of feeding the same text as a single chunk.  *)
(***************************************************************************)
C2_ChunkInvariance ==
    finalized => TotalVisible = OneShotVisible(StreamText)

(***************************************************************************)
(* C3 (P3, nesting): for a stream whose marker pairs are properly nested   *)
(* (some pair inside another, every open closed), the total visible output *)
(* is exactly the text outside the outermost pairs.                        *)
(***************************************************************************)
C3_Nesting ==
    (/\ finalized
     /\ WellFormed(StreamText)
     /\ Ref(StreamText).depth = 0
     /\ Ref(StreamText).deepest >= 2)
    => TotalVisible = Ref(StreamText).out

(***************************************************************************)
(* C4 (P4, unterminated block): when the stream ends inside a block (an    *)
(* open marker without a matching close, the postprocessor's depth >= 1),  *)
(* finalize() returns the empty text and no character located after the    *)
(* unmatched open marker was ever returned.                                *)
(***************************************************************************)
C4_UnterminatedDiscarded ==
    (/\ finalized
     /\ WellFormed(StreamText)
     /\ Ref(StreamText).depth >= 1
     /\ thinking_depth >= 1)
    => /\ finalOut = <<>>
       /\ \A q \in Range(emittedPos) : q < Ref(StreamText).enterAt + Len(OpenTag)

(***************************************************************************)
(* C5 (partial markers are held back): after a process_chunk call, if the  *)
(* text seen so far ends with a proper non-empty prefix of a marker, that  *)
(* trailing prefix has not been returned and is the tail of the buffer.    *)
(***************************************************************************)
C5_PartialHeldBack ==
    lastCall.op = "process_chunk" =>
        \A n \in 1..(Len(CloseTag) - 1) :
            EndsWithPartial(StreamText, n) =>
                /\ \A q \in Range(emittedPos) : q < fed - n
                /\ Len(buffer) >= n
                /\ LastChars(buffer, n) = LastChars(StreamText, n)

(***************************************************************************)
(* C6 (each marker counted once): when a block opened by an earlier call   *)
(* (depth 1 before the call) is closed by the text of this call, depth is  *)
(* 0 and in_thinking_block false after it, and the call returns the text   *)
(* that follows the close marker.                                          *)
(***************************************************************************)
C6_CloseInLaterCall ==
    (/\ lastCall.op = "process_chunk"
     /\ lastCall.preInBlock /\ lastCall.preDepth = 1
     /\ WellFormed(StreamText)
     /\ Ref(PrevText).depth = 1
     /\ Ref(StreamText).depth = 0
     /\ NoPartialTail(StreamText))
    => /\ thinking_depth = 0
       /\ ~in_thinking_block
       /\ lastCall.ret = Slice(Ref(StreamText).out, Len(Ref(PrevText).out),
                               Len(Ref(StreamText).out))

(***************************************************************************)
(* C7 (no duplication, no loss): for a finalized stream without stray      *)
(* close markers, the process_chunk outputs followed by finalize()'s       *)
(* output are exactly the characters outside all blocks, once, in order.   *)
(***************************************************************************)
C7_ExactlyOnce ==
    (finalized /\ WellFormed(StreamText)) => TotalVisible = Ref(StreamText).out

(***************************************************************************)
(* C8 (P6, passthrough): with remove_thinking unset every process_chunk    *)
(* call returns its chunk, buffer, depth and in_thinking_block keep their  *)
(* initial values, and finalize() returns the empty text.                  *)
(***************************************************************************)
C8_Passthrough ==
    /\ lastCall.op = "process_chunk" => lastCall.ret = lastCall.chunk
    /\ visible = StreamText
    /\ buffer = <<>>
    /\ thinking_depth = 0
    /\ ~in_thinking_block
    /\ finalized => finalOut = <<>>

C8_Witness ==
    /\ ~remove_thinking
    /\ finalized
    /\ nChunks >= 2
    /\ Contains(visible, OpenTag)
    /\ Contains(visible, CloseTag)

(***************************************************************************)
(* C9 (transition events): thinking_callback has been invoked with "enter" *)
(* exactly at each 0 -> 1 change of depth and with "exit" at each 1 -> 0   *)
(* change, in stream order.                                                *)
(***************************************************************************)
C9_EventsMatchTransitions ==
    callback_calls = transitions

(***************************************************************************)
(* C10: while stream_ai_response_formatted runs, the animation is Running  *)
(* exactly while the response received so far is inside a thinking block   *)
(* (so a response without a thinking block never starts it).               *)
(***************************************************************************)
C10_AnimationTracksBlocks ==
    sPc \in {"streaming", "display"} =>
        (is_active <=> Ref(full_response).depth > 0)

(***************************************************************************)
(* Reading the record of calls and the terminal.  Used only to state       *)
(* properties.                                                             *)
(***************************************************************************)
\* the fields of the handler and of its animator
HandlerState(a) ==
    [thinking_active |-> a.thinking_active, is_active |-> a.is_active,
     animation_task |-> a.animation_task, current_frame |-> a.current_frame,
     tasks |-> a.tasks]

NoTaskAlive(ts) == \A t \in 1..Len(ts) : ~Alive(ts[t])

Clears(term) == Cardinality({j \in 1..Len(term) : term[j].kind = "clear"})

Frames(term) == Cardinality({j \in 1..Len(term) : term[j].kind = "frame"})

\* the call numbered i has ended
Ended(i) == calls[i].at # "await"

\* the exit and cleanup calls that found the handler active and have ended
EffectiveExits ==
    {i \in 1..Len(calls) : /\ calls[i].op \in {"exit", "cleanup"}
                           /\ calls[i].pre.thinking_active
                           /\ Ended(i)}

\* no call is under way and the last one was an exit or a cleanup
EndsWithExit ==
    /\ calls # <<>>
    /\ Ended(Len(calls))
    /\ calls[Len(calls)].op \in {"exit", "cleanup"}

(***************************************************************************)
(* C11: after a sequence of handler events that ends with an exit or a     *)
(* cleanup, animation_task is None, is_active is false, no _animate task   *)
(* is alive, and the terminal has received one line-clear for each exit or *)
(* cleanup that found the handler active, and no other.                    *)
(***************************************************************************)
C11_LifecycleClean ==
    EndsWithExit =>
        /\ animation_task = NoTask
        /\ ~is_active
        /\ NoTaskAlive(tasks)
        /\ Clears(terminal) = Cardinality(EffectiveExits)

\* the same for sequences during which the terminal refused no frame of an
\* _animate task
LifecycleCleanWithoutRenderFailure ==
    (EndsWithExit /\ \A t \in 1..Len(tasks) : tasks[t] # "failed") =>
        /\ animation_task = NoTask
        /\ ~is_active
        /\ NoTaskAlive(tasks)
        /\ Clears(terminal) = Cardinality(EffectiveExits)

(***************************************************************************)
(* C12: start_animation or an enter event while the animator is active     *)
(* returns at once and creates no task, writes nothing and leaves          *)
(* current_frame alone; stop_animation or an exit event while it is not    *)
(* active returns at once without an error and writes nothing.             *)
(***************************************************************************)
C12_Idempotent ==
    \A i \in 1..Len(calls) :
        LET k == calls[i]
            same == /\ k.at = "returned"
                    /\ k.end.terminal = k.pre.terminal
                    /\ k.end.tasks = k.pre.tasks
                    /\ k.end.current_frame = k.pre.current_frame
                    /\ k.end.animation_task = k.pre.animation_task
                    /\ k.end.is_active = k.pre.is_active
        IN  /\ (k.op \in {"start_animation", "enter"} /\ k.pre.is_active) => same
            /\ (k.op \in {"stop_animation", "exit"} /\ ~k.pre.is_active) => same
            /\ (k.op = "enter" /\ k.pre.thinking_active) =>
                   HandlerState(k.end) = HandlerState(k.pre)
            /\ (k.op = "exit" /\ ~k.pre.thinking_active) =>
                   HandlerState(k.end) = HandlerState(k.pre)

\* a start or an enter was made while a task was rendering, and a stop or an
\* exit after the animation had been stopped
C12_Witness ==
    /\ \E i \in 1..Len(calls) :
          /\ calls[i].op \in {"start_animation", "enter"}
          /\ calls[i].pre.is_active
          /\ calls[i].pre.current_frame > 0
    /\ \E i \in 1..Len(calls) :
          /\ calls[i].op \in {"stop_animation", "exit"}
          /\ ~calls[i].pre.is_active
          /\ Clears(calls[i].pre.terminal) > 0

(***************************************************************************)
(* C13: when the task running stream_ai_response_formatted is cancelled or *)
(* interrupted while the animation runs, the cancellation reaches the      *)
(* caller only after the animation was stopped: is_active is false and no  *)
(* _animate task is alive.                                                 *)
(***************************************************************************)
C13_CancelStopsAnimation ==
    outcome = Raised("CancelledError") =>
        /\ ~is_active
        /\ NoTaskAlive(tasks)

(***************************************************************************)
(* C14: whenever stream_ai_response_formatted returns, after the stream    *)
(* was exhausted or after an Exception, thinking_active and is_active are  *)
(* false and no _animate task is alive.                                    *)
(***************************************************************************)
C14_IdleOnReturn ==
    outcome.kind = "returned" =>
        /\ ~thinking_active
        /\ ~is_active
        /\ NoTaskAlive(tasks)

\* the call has returned after generate_stream raised while a task was
\* rendering frames
C14_Witness ==
    /\ outcome.kind = "returned"
    /\ source_error # "none"
    /\ Frames(terminal) > 1

C16_RenderFailureContained ==
    (/\ \E t \in 1..Len(tasks) : tasks[t] = "failed"
     /\ sPc = "done"
     /\ source_error = "none"
     /\ outcome # Raised("CancelledError")) =>
        outcome = Returned(postprocess_response(received, TRUE))

C18_AtMostOneTask ==
    /\ Cardinality({t \in 1..Len(tasks) : Alive(tasks[t])}) <= 1
    /\ \A t \in 1..Len(tasks) : Alive(tasks[t]) => animation_task = t

(***************************************************************************)
(* C19: a cleanup that follows a cleanup changes nothing and writes        *)
(* nothing, so that the two write one line-clear at most; a cleanup that   *)
(* follows an enter that raised in start_animation, with is_active set and *)
(* no task created, raises no error and leaves thinking_active and         *)
(* is_active false and no task alive.                                      *)
(***************************************************************************)
C19_CleanupSafe ==
    \A i \in 2..Len(calls) :
        /\ (calls[i].op = "cleanup" /\ calls[i - 1].op = "cleanup") =>
              /\ calls[i].at = "returned"
              /\ HandlerState(calls[i].end) = HandlerState(calls[i].pre)
              /\ calls[i].end.terminal = calls[i].pre.terminal
              /\ Clears(calls[i].end.terminal) <= Clears(calls[i - 1].pre.terminal) + 1
        /\ (calls[i].op = "cleanup" /\ calls[i - 1].op = "enter"
                                    /\ calls[i - 1].at = "raised") =>
              /\ calls[i].at = "returned"
              /\ ~calls[i].end.thinking_active
              /\ ~calls[i].end.is_active
              /\ NoTaskAlive(calls[i].end.tasks)

\* the same when the terminal refused no frame of an _animate task
CleanupSafeWithoutRenderFailure ==
    (\A t \in 1..Len(tasks) : tasks[t] # "failed") => C19_CleanupSafe

\* cleanup was called after an enter that raised, and called again
C19_Witness ==
    \E i \in 2..Len(calls) :
        /\ calls[i].op = "cleanup"
        /\ calls[i - 1].op = "enter" /\ calls[i - 1].at = "raised"
        /\ calls[i - 1].end.is_active
        /\ calls[i - 1].end.animation_task = NoTask
        /\ i < Len(calls) /\ calls[i + 1].op = "cleanup"

(***************************************************************************)
(* The response text the terminal has shown: the characters written, the   *)
(* colour codes left out.                                                  *)
(***************************************************************************)
IsResponseChar(w) == w.kind = "char" /\ w.text \notin {LIGHT_PURPLE, RESET}

Rendered ==
    LET shownWrites == SelectSeq(terminal, IsResponseChar)
    IN  [j \in 1..Len(shownWrites) |-> shownWrites[j].text]

(***************************************************************************)
(* C20 as stated: the value stream_ai_response_formatted returns is the    *)
(* response text it rendered, colour codes apart.                          *)
(***************************************************************************)
C20_ReturnedIsRendered ==
    outcome.kind = "returned" => outcome.value = Rendered

(***************************************************************************)
(* C20, amended: the call returns either the postprocessed text of the     *)
(* chunks it received, having rendered exactly that text, or the dummy     *)
(* response, having rendered it as the formatter wraps it, a line break    *)
(* standing for the space at which a line longer than max_width is broken. *)
(***************************************************************************)
C20_ReturnedIsRenderedUnwrapped ==
    outcome.kind = "returned" =>
        \/ /\ outcome.value = postprocess_response(received, TRUE)
           /\ Rendered = outcome.value
        \/ /\ outcome.value = get_dummy_response(user_input)
           /\ Rendered = Fill(outcome.value, max_width)

\* the call has returned a response from which a thinking block was removed
C20_Witness ==
    /\ outcome.kind = "returned"
    /\ outcome.value = postprocess_response(received, TRUE)
    /\ outcome.value # <<>>
    /\ outcome.value # received

(***************************************************************************)
(* remove_thinking_tokens and postprocess_response called on a whole text  *)
(* (helpers.py:9-35, 106-131), as session.py:151-153 does with the raw     *)
(* response.  The texts are the streams above and the texts of up to       *)
(* MaxNestTokens tokens in which every open marker has its close marker.   *)
(***************************************************************************)
MaxNestTokens == 5

NestTokens == {OpenTag, CloseTag, <<"X">>, <<"Y">>}

ProperlyNested(text) == Ref(text).depth = 0 /\ ~Ref(text).stray

NestedTexts ==
    {t \in {Flatten(ts) : ts \in UNION {[1..n -> NestTokens] : n \in 0..MaxNestTokens}} :
        ProperlyNested(t)}

HelperInputs == Inputs \cup NestedTexts

RemoveThinkingTokens ==
    /\ lastCall.op = "none"
    /\ lastCall' = [NoCall EXCEPT !.op = "remove_thinking_tokens",
                                  !.chunk = input,
                                  !.ret = remove_thinking_tokens(input)]
    /\ UNCHANGED <<remove_thinking, buffer, in_thinking_block, thinking_depth,
                   thinking_content_length, callback_calls, input, fed, nChunks,
                   visible, emittedPos, transitions, finalized, finalOut>>
    /\ UNCHANGED <<animVars, sessVars, callVars, lifeVars, loopVars, utilVars>>

PostprocessResponse ==
    /\ lastCall.op = "none"
    /\ \E removeThinking \in BOOLEAN :
          /\ remove_thinking' = removeThinking
          /\ lastCall' = [NoCall EXCEPT !.op = "postprocess_response",
                                        !.chunk = input,
                                        !.ret = postprocess_response(input, removeThinking)]
    /\ UNCHANGED <<buffer, in_thinking_block, thinking_depth,
                   thinking_content_length, callback_calls, input, fed, nChunks,
                   visible, emittedPos, transitions, finalized, finalOut>>
    /\ UNCHANGED <<animVars, sessVars, callVars, lifeVars, loopVars, utilVars>>

InitHelpers == InitPostprocessor(TRUE) /\ InitStream(HelperInputs) /\ SessionUnused

NextHelpers == RemoveThinkingTokens \/ PostprocessResponse

SpecHelpers == InitHelpers /\ [][NextHelpers]_vars

(***************************************************************************)
(* C21 (nested tags): for a text whose markers are properly nested,        *)
(* remove_thinking_tokens returns a text with neither marker in it, made   *)
(* of the text outside the outermost blocks only.                          *)
(***************************************************************************)
C21_NestedRemoved ==
    (lastCall.op = "remove_thinking_tokens" /\ ProperlyNested(lastCall.chunk))
        => /\ ~Contains(lastCall.ret, OpenTag)
           /\ ~Contains(lastCall.ret, CloseTag)
           /\ lastCall.ret = Strip(CollapseNewlines(Ref(lastCall.chunk).out))

\* the same for the texts in which no block holds another block
C21_FlatRemoved ==
    (lastCall.op = "remove_thinking_tokens" /\ ProperlyNested(lastCall.chunk)
        /\ Ref(lastCall.chunk).deepest <= 1)
        => /\ ~Contains(lastCall.ret, OpenTag)
           /\ ~Contains(lastCall.ret, CloseTag)
           /\ lastCall.ret = Strip(CollapseNewlines(Ref(lastCall.chunk).out))

(***************************************************************************)
(* C22 (unmatched open marker): when the text received from the source has *)
(* an open marker that no close marker follows, the response the call      *)
(* renders and returns is the postprocessed text before that marker: what  *)
(* comes after the marker is dropped.                                      *)
(***************************************************************************)
\* offset of the first open marker of text that no close marker follows, -1 if none
UnmatchedOpen(text) ==
    LET opens == {s \in 0..(Len(text) - 1) :
                     MatchAt(text, OpenTag, s) /\ Find(text, CloseTag, s) < 0}
    IN  IF opens = {} THEN -1 ELSE Min(opens)

C22_UnmatchedDropped ==
    (/\ outcome.kind = "returned"
     /\ outcome.value # get_dummy_response(user_input)
     /\ UnmatchedOpen(received) >= 0)
        => /\ outcome.value =
                 postprocess_response(Slice(received, 0, UnmatchedOpen(received)), TRUE)
           /\ Rendered = outcome.value

(***************************************************************************)
(* ChatSession.start (session.py:305-339) and handle_command (233-253).    *)
(* One step is one pass through the loop body: input() returns a line or   *)
(* raises, the line is handled as a command or as a message.  The call of  *)
(* stream_ai_response_formatted at line 326 is taken as a whole here: it   *)
(* returns a response or lets a cancellation or an interrupt through.      *)
(***************************************************************************)
MaxLines == 4

CmdExit == <<"e", "x", "i", "t">>
CmdQuit == <<"q", "u", "i", "t">>
CmdHelp == <<"h", "e", "l", "p">>
CmdHistory == <<"h", "i", "s", "t", "o", "r", "y">>
CmdClear == <<"c", "l", "e", "a", "r">>

\* what the user may type on a line
Lines ==
    {<<>>, <<" ">>, CmdExit, CmdQuit, CmdHelp, CmdHistory, CmdClear,
     <<"H", "e", "l", "p">>, <<" ", "e", "x", "I", "T", " ">>, <<"h", "i">>, <<"Y">>}

EOFError == <<"EOFError">>
KeyboardInterrupt == <<"KeyboardInterrupt">>

\* the responses stream_ai_response_formatted may return for a message: the
\* dummy response, and with an LLM what was left of its response
Replies(message) ==
    IF use_llm THEN {get_dummy_response(message), <<"X">>, <<>>}
    ELSE {get_dummy_response(message)}

\* session.py:217-220, as one piece of text
system_prompt == <<"You are YAAP (Yet Another AI Program), a helpful AI assistant. Be concise, friendly, and helpful in your responses.">>

\* a Message of the LLM client (session.py:221, 226, 229)
LlmMessage(role, content) == [role |-> role, content |-> content]

\* _prepare_messages_for_llm (session.py:212-231) on the history as it stands
prepare_messages_for_llm(history, current_input) ==
    <<LlmMessage("system", system_prompt)>>
        \o [j \in 1..Len(history) |->
               LlmMessage(IF history[j].role = "user" THEN "user" ELSE "assistant",
                          history[j].content)]
        \o <<LlmMessage("user", current_input)>>

\* line 115, reached only with an LLM (line 103): the list is built from the
\* history, to which line 323 has added the message already
messages_sent(history, typed) ==
    IF use_llm THEN prepare_messages_for_llm(history, typed) ELSE sent

Printed(kind, count) == [kind |-> kind, count |-> count]

Message(role, content) == [role |-> role, content |-> content]

InitLoop ==
    /\ opLog = <<>>
    /\ lPc = "reading"
    /\ conversation_history = <<>>
    /\ entered = <<>>
    /\ nLines = 0
    /\ screen = <<Printed("started", 0)>>
    /\ sent = <<>>
    /\ gen = [pc |-> "unused"]
    /\ adv = [pc |-> "unused"]

\* command.lower().strip() (session.py:235)
Command(command) == Strip([j \in 1..Len(command) |-> Lower(command[j])])

\* handle_command: what it returns, the history it leaves, what it prints
handle_command(command, history) ==
    LET c == Command(command)
    IN  IF c \in {CmdExit, CmdQuit}
        THEN [ret |-> TRUE, history |-> history,
              printed |-> <<Printed("summary", Len(history))>>]
        ELSE IF c = CmdHelp
        THEN [ret |-> TRUE, history |-> history, printed |-> <<Printed("help", 0)>>]
        ELSE IF c = CmdHistory
        THEN [ret |-> TRUE, history |-> history,
              printed |-> <<Printed("history", Len(history))>>]
        ELSE IF c = CmdClear
        THEN [ret |-> TRUE, history |-> <<>>, printed |-> <<Printed("cleared", 0)>>]
        ELSE [ret |-> FALSE, history |-> history, printed |-> <<>>]

\* lines 312-331: input() returns text
StartLine ==
    /\ lPc = "reading"
    /\ nLines < MaxLines
    /\ nLines' = nLines + 1
    /\ \E text \in Lines :
          /\ entered' = text
          /\ \E typed \in {Strip(text)} :
                IF typed = <<>>
                THEN UNCHANGED <<lPc, conversation_history, screen, sent>>
                ELSE \E h \in {handle_command(typed, conversation_history)} :
                       IF h.ret
                       THEN /\ lPc' = "ended"
                            /\ conversation_history' = h.history
                            /\ screen' = screen \o h.printed
                            /\ UNCHANGED sent
                       ELSE \E added \in {Append(conversation_history,
                                                 Message("user", typed))} :
                            /\ sent' = messages_sent(added, typed)
                            /\ \/ \E ai_response \in Replies(typed) :
                                     /\ conversation_history' =
                                            Append(added, Message("assistant", ai_response))
                                     /\ screen' = Append(screen, Printed("response", 0))
                                     /\ UNCHANGED lPc
                               \/ /\ conversation_history' = added
                                  /\ lPc' = "raised"
                                  /\ UNCHANGED screen
    /\ UNCHANGED opLog
    /\ UNCHANGED <<ppVars, animVars, sessVars, callVars, utilVars>>

\* lines 333-336: input() raises EOFError
StartEOF ==
    /\ lPc = "reading"
    /\ nLines < MaxLines
    /\ nLines' = nLines + 1
    /\ entered' = EOFError
    /\ screen' = Append(screen, Printed("goodbye", 0))
    /\ lPc' = "ended"
    /\ UNCHANGED <<conversation_history, opLog, sent>>
    /\ UNCHANGED <<ppVars, animVars, sessVars, callVars, utilVars>>

\* lines 337-339: input() raises KeyboardInterrupt
StartInterrupt ==
    /\ lPc = "reading"
    /\ nLines < MaxLines
    /\ nLines' = nLines + 1
    /\ entered' = KeyboardInterrupt
    /\ lPc' = "raised"
    /\ UNCHANGED <<conversation_history, screen, opLog, sent>>
    /\ UNCHANGED <<ppVars, animVars, sessVars, callVars, utilVars>>

\* the session with or without an LLM (session.py:24-35), no call of
\* stream_ai_response_formatted being followed step by step
SessionVarsOfLoop ==
    /\ sPc = "unused"
    /\ use_llm \in BOOLEAN
    /\ user_input = <<>>
    /\ enable_postprocessing = TRUE
    /\ original_postprocessing = "unset"
    /\ full_response = <<>>
    /\ chunk_count = 0
    /\ shown = 0
    /\ outcome = NoOutcome
    /\ received = <<>>
    /\ source_error = "none"

InitStart ==
    /\ InitPostprocessor(TRUE) /\ InitStream({<<>>})
    /\ InitAnimator
    /\ InitCallers(0)
    /\ SessionVarsOfLoop
    /\ InitLoop

NextStart == StartLine \/ StartEOF \/ StartInterrupt

SpecStart == InitStart /\ [][NextStart]_vars

(***************************************************************************)
(* C23 (commands): a line ends the session only if it is the command exit  *)
(* or quit; after help, history or clear the loop is reading again.        *)
(***************************************************************************)
C23_OnlyExitEnds ==
    entered \in Lines =>
        /\ lPc = "ended" => Command(entered) \in {CmdExit, CmdQuit}
        /\ Command(entered) \in {CmdHelp, CmdHistory, CmdClear} => lPc = "reading"

\* what the loop does: exit and quit end it after the summary, and so does
\* every other command after its own output
C23_EveryCommandEnds ==
    (entered \in Lines /\ Command(entered) \in {CmdExit, CmdQuit, CmdHelp, CmdHistory, CmdClear})
        => lPc = "ended"

(***************************************************************************)
(* One StreamingPostprocessor used as its callers please: process_chunk,   *)
(* finalize (streaming.py:117-138) and reset (streaming.py:26-31) in any   *)
(* order, up to MaxOps calls, with markers in either case and in pieces.   *)
(***************************************************************************)
MaxOps == 4

UpperOpenTag == <<"<", "T", "H", "I", "N", "K", ">">>
MixedCloseTag == <<"<", "/", "T", "h", "i", "n", "k", ">">>

LifeChunks ==
    {<<>>, OpenTag, CloseTag, <<"X">>, UpperOpenTag, MixedCloseTag,
     <<"<", "t", "h", "i">>, <<"n", "k", ">">>}

\* the fields process_chunk, finalize and reset write
Fields ==
    [buffer |-> buffer, in_thinking_block |-> in_thinking_block,
     thinking_depth |-> thinking_depth,
     thinking_content_length |-> thinking_content_length]

\* the same after __init__ (streaming.py:21-24)
FreshFields ==
    [buffer |-> <<>>, in_thinking_block |-> FALSE,
     thinking_depth |-> 0, thinking_content_length |-> 0]

SetFields(st) ==
    /\ buffer' = st.buffer
    /\ in_thinking_block' = st.in_thinking_block
    /\ thinking_depth' = st.thinking_depth
    /\ thinking_content_length' = st.thinking_content_length

\* reset as it would be if it left the depth alone
reset_KeepDepth(st) ==
    [st EXCEPT !.buffer = <<>>, !.in_thinking_block = FALSE,
               !.thinking_content_length = 0]

\* reset as it would be if it left the buffer alone
reset_KeepBuffer(st) ==
    [st EXCEPT !.in_thinking_block = FALSE, !.thinking_depth = 0,
               !.thinking_content_length = 0]

\* streaming.py:26-31
reset(st) ==
    [st EXCEPT !.buffer = <<>>, !.in_thinking_block = FALSE,
               !.thinking_depth = 0, !.thinking_content_length = 0]

\* a call, what it returned and the fields it left
Logged(op, chunk, ret, post) == [op |-> op, chunk |-> chunk, ret |-> ret, post |-> post]

\* one call of process_chunk(chunk), finalize() or reset() on the fields st
CallOn(op, chunk, st, rt) ==
    IF op = "process_chunk"
    THEN LET r == ProcessChunkResult(rt, st.buffer, st.in_thinking_block,
                                     st.thinking_depth, st.thinking_content_length,
                                     chunk)
         IN  Logged(op, chunk, r.output,
                    [buffer |-> r.buffer, in_thinking_block |-> r.in_thinking_block,
                     thinking_depth |-> r.thinking_depth,
                     thinking_content_length |-> r.thinking_content_length])
    ELSE IF op = "finalize"
    THEN Logged(op, <<>>, FinalizeResult(rt, st.buffer, st.in_thinking_block),
                [st EXCEPT !.buffer = <<>>])
    ELSE Logged(op, <<>>, <<>>, reset(st))

LifeCall(op, chunk) ==
    /\ Len(opLog) < MaxOps
    /\ \E e \in {CallOn(op, chunk, Fields, remove_thinking)} :
          /\ SetFields(e.post)
          /\ opLog' = Append(opLog, e)
          /\ lastCall' = [op |-> op, chunk |-> chunk, ret |-> e.ret,
                          preBuffer |-> buffer, preInBlock |-> in_thinking_block,
                          preDepth |-> thinking_depth]
    /\ UNCHANGED <<remove_thinking, callback_calls, input, fed, nChunks,
                   visible, emittedPos, transitions, finalized, finalOut>>
    /\ UNCHANGED <<animVars, sessVars, callVars, loopVars, utilVars>>

LifeProcessChunk == \E chunk \in LifeChunks : LifeCall("process_chunk", chunk)

LifeFinalize == LifeCall("finalize", <<>>)

LifeReset == LifeCall("reset", <<>>)

InitLife ==
    /\ \E rt \in BOOLEAN : InitPostprocessor(rt)
    /\ InitStream({<<>>})
    /\ SessionUnused

NextLife == LifeProcessChunk \/ LifeFinalize \/ LifeReset

SpecLife == InitLife /\ [][NextLife]_vars

\* the calls of ops made one after the other on the fields st
RECURSIVE Replay(_, _, _)
Replay(ops, st, rt) ==
    IF ops = <<>> THEN <<>>
    ELSE LET e == CallOn(Head(ops).op, Head(ops).chunk, st, rt)
         IN  <<e>> \o Replay(Tail(ops), e.post, rt)

\* the calls logged after call number k
LogAfter(k) == SubSeq(opLog, k + 1, Len(opLog))

\* the number in opLog of the last call of op, 0 if there is none
LastOp(op) ==
    LET ks == {k \in 1..Len(opLog) : opLog[k].op = op}
    IN  IF ks = {} THEN 0 ELSE CHOOSE k \in ks : \A j \in ks : j <= k

(***************************************************************************)
(* C24 (depth and flag): after any calls of process_chunk, finalize and    *)
(* reset, thinking_depth is not negative and in_thinking_block is set      *)
(* exactly when thinking_depth is positive.                                *)
(***************************************************************************)
C24_DepthAndFlag ==
    /\ thinking_depth >= 0
    /\ in_thinking_block <=> thinking_depth > 0

\* a close marker arrived at depth 0, then a block was left open at a
\* finalize, and a reset came last
C24_Witness ==
    /\ Len(opLog) >= 3
    /\ opLog[1].op = "process_chunk" /\ opLog[1].chunk = CloseTag
    /\ \E k \in 1..Len(opLog) :
          opLog[k].op = "finalize" /\ opLog[k].post.thinking_depth > 0
    /\ opLog[Len(opLog)].op = "reset"

(***************************************************************************)
(* C25 (bounded buffer): after every process_chunk call the buffer kept    *)
(* holds at most one character less than the longer marker.                *)
(***************************************************************************)
MaxHeldBack ==
    (IF Len(OpenTag) > Len(CloseTag) THEN Len(OpenTag) ELSE Len(CloseTag)) - 1

C25_BufferBounded ==
    lastCall.op = "process_chunk" => Len(buffer) <= MaxHeldBack

(***************************************************************************)
(* C26 (finalize clears the scan state): after finalize() the buffer is    *)
(* empty, the depth 0 and in_thinking_block unset, and the calls that      *)
(* follow without a reset return what they return on a fresh postprocessor *)
(* and leave the buffer, depth and flag they leave there.                  *)
(***************************************************************************)
SameScan(e, f) ==
    /\ e.ret = f.ret
    /\ e.post.buffer = f.post.buffer
    /\ e.post.in_thinking_block = f.post.in_thinking_block
    /\ e.post.thinking_depth = f.post.thinking_depth

C26_FinalizeClears ==
    \A k \in 1..Len(opLog) :
        opLog[k].op = "finalize" =>
            /\ opLog[k].post.buffer = <<>>
            /\ opLog[k].post.thinking_depth = 0
            /\ ~opLog[k].post.in_thinking_block
            /\ \E fresh \in {Replay(LogAfter(k), FreshFields, remove_thinking)} :
                  \A j \in 1..Len(fresh) : SameScan(opLog[k + j], fresh[j])

\* what finalize() does clear: the buffer, and nothing else
C26_FinalizeClearsBuffer ==
    \A k \in 1..Len(opLog) :
        opLog[k].op = "finalize" =>
            /\ opLog[k].post.buffer = <<>>
            /\ LET before == IF k = 1 THEN FreshFields ELSE opLog[k - 1].post
               IN  opLog[k].post = [before EXCEPT !.buffer = <<>>]

(***************************************************************************)
(* C27 (reset): after reset() the fields are those of a postprocessor just *)
(* constructed with the same remove_thinking, and every call that follows  *)
(* returns what it returns there and leaves the fields it leaves there.    *)
(***************************************************************************)
C27_ResetIsFresh ==
    \A k \in 1..Len(opLog) :
        opLog[k].op = "reset" =>
            /\ opLog[k].post = FreshFields
            /\ LogAfter(k) = Replay(LogAfter(k), FreshFields, remove_thinking)

\* a reset in the middle of a block, with text in the buffer, and then a
\* chunk that came out
C27_Witness ==
    /\ Len(opLog) >= 3
    /\ \E k \in 2..(Len(opLog) - 1) :
          /\ opLog[k].op = "reset"
          /\ opLog[k - 1].post.in_thinking_block
          /\ opLog[k - 1].post.buffer # <<>>
          /\ opLog[k + 1].op = "process_chunk"
          /\ opLog[k + 1].ret # <<>>

(***************************************************************************)
(* C28 (empty chunk): process_chunk('') returns nothing and leaves the     *)
(* buffer, the depth and in_thinking_block as they were.                   *)
(***************************************************************************)
C28_EmptyChunkNoOp ==
    (lastCall.op = "process_chunk" /\ lastCall.chunk = <<>>)
        => /\ lastCall.ret = <<>>
           /\ buffer = lastCall.preBuffer
           /\ thinking_depth = lastCall.preDepth
           /\ in_thinking_block = lastCall.preInBlock

(***************************************************************************)
(* C29 (case of the markers): the calls made, and the same calls with the  *)
(* letters of every marker in the chunks put in lower case, return the     *)
(* same texts and leave the same depth and in_thinking_block, call by call.*)
(***************************************************************************)
\* offset p of text lies inside a marker, whatever the case of its letters
InMarker(text, p) ==
    \E s \in 0..p :
        \/ MatchAt(text, OpenTag, s) /\ p < s + Len(OpenTag)
        \/ MatchAt(text, CloseTag, s) /\ p < s + Len(CloseTag)

LowerMarkers(text) ==
    [j \in 1..Len(text) |-> IF InMarker(text, j - 1) THEN Lower(text[j]) ELSE text[j]]

LowerMarkersLog == [k \in 1..Len(opLog) |-> [opLog[k] EXCEPT !.chunk = LowerMarkers(@)]]

C29_CaseInsensitive ==
    remove_thinking =>
        \E lower \in {Replay(LowerMarkersLog, FreshFields, TRUE)} :
            \A k \in 1..Len(opLog) :
                /\ lower[k].ret = opLog[k].ret
                /\ lower[k].post.thinking_depth = opLog[k].post.thinking_depth
                /\ lower[k].post.in_thinking_block = opLog[k].post.in_thinking_block

LowerAll(text) == [j \in 1..Len(text) |-> Lower(text[j])]

\* the depth and the flag are the same call by call, and so are the texts
\* returned but for the case of their letters
C29_SameBlocks ==
    remove_thinking =>
        \E lower \in {Replay(LowerMarkersLog, FreshFields, TRUE)} :
            \A k \in 1..Len(opLog) :
                /\ LowerAll(lower[k].ret) = LowerAll(opLog[k].ret)
                /\ lower[k].post.thinking_depth = opLog[k].post.thinking_depth
                /\ lower[k].post.in_thinking_block = opLog[k].post.in_thinking_block

(***************************************************************************)
(* The animation seen from any point of its cycle: the handler entered,    *)
(* the _animate task asleep, and the frames 0..n rendered so far, for      *)
(* every n up to one full cycle.  One caller goes on from there.           *)
(***************************************************************************)
InitFrames ==
    /\ InitPostprocessor(TRUE) /\ InitStream({<<>>})
    /\ InitCallers(1)
    /\ SessionVarsUnused
    /\ LoopUnused
    /\ thinking_active = TRUE
    /\ is_active = TRUE
    /\ animation_task = 1
    /\ tasks = <<"sleeping">>
    /\ nTicks = 0
    /\ \E n \in 0..(Len(animation_frames) - 1) :
          /\ current_frame = n
          /\ terminal = [j \in 1..(n + 1) |-> FrameWrite(j - 1)]

SpecFrames == InitFrames /\ [][NextHandler]_vars

\* what a step writes to the terminal
NewWrites == SubSeq(terminal', Len(terminal) + 1, Len(terminal'))

(***************************************************************************)
(* C30 (frame order): current_frame is always an index of                  *)
(* animation_frames; a step that renders a frame renders the frame of the  *)
(* new current_frame with is_active set: frame 0 when the animation was    *)
(* not active before the step (a start), the frame after the previous one, *)
(* modulo the number of frames, when it was.  A start that creates the     *)
(* _animate task has rendered frame 0 and nothing else.                    *)
(***************************************************************************)
C30_FrameOrder ==
    /\ [](current_frame \in 0..(Len(animation_frames) - 1))
    /\ [][\A j \in 1..Len(NewWrites) :
              NewWrites[j].kind = "frame" =>
                  /\ is_active'
                  /\ NewWrites[j] = FrameWrite(current_frame')
                  /\ current_frame' = IF is_active
                                      THEN (current_frame + 1) % Len(animation_frames)
                                      ELSE 0]_vars
    /\ [][(~is_active /\ is_active' /\ Len(tasks') > Len(tasks))
              => (NewWrites = <<FrameWrite(0)>> /\ current_frame' = 0)]_vars

\* the last frame of the cycle was on the terminal and the first one has
\* been rendered after it by the _animate task
C30_Witness ==
    /\ calls = <<>>
    /\ nTicks >= 1
    /\ current_frame = 0
    /\ Len(terminal) > Len(animation_frames)
    /\ terminal[Len(terminal)] = FrameWrite(0)

(***************************************************************************)
(* C35 (messages of a turn): the list prepared for the LLM for a message   *)
(* is the system prompt, the history as it was before the turn, and the    *)
(* message typed, once, as the last entry.                                 *)
(***************************************************************************)
\* the last line read was a message and an LLM is in use
MessageTurn ==
    /\ use_llm
    /\ entered \in Lines
    /\ Strip(entered) # <<>>
    /\ ~handle_command(Strip(entered), <<>>).ret

\* the history before the turn of the last line read
HistoryBefore ==
    SubSeq(conversation_history, 1,
           Len(conversation_history) - (IF lPc = "raised" THEN 1 ELSE 2))

AsLlmMessages(history) ==
    [j \in 1..Len(history) |-> LlmMessage(history[j].role, history[j].content)]

C35_InputSentOnce ==
    MessageTurn =>
        sent = <<LlmMessage("system", system_prompt)>>
                   \o AsLlmMessages(HistoryBefore)
                   \o <<LlmMessage("user", Strip(entered))>>

\* what is sent: the message typed comes twice, from the history and from
\* the argument
C35_InputSentTwice ==
    MessageTurn =>
        sent = <<LlmMessage("system", system_prompt)>>
                   \o AsLlmMessages(HistoryBefore)
                   \o <<LlmMessage("user", Strip(entered)),
                        LlmMessage("user", Strip(entered))>>

(***************************************************************************)
(* C33 (no response over the animation): when a character of the response *)
(* is printed the animation is not active, and every frame printed before  *)
(* it has been followed by a line-clear.                                   *)
(***************************************************************************)
ClearedBefore(j) ==
    \A k \in 1..(j - 1) :
        terminal[k].kind = "frame" =>
            \E m \in (k + 1)..(j - 1) : terminal[m].kind = "clear"

C33_ClearBeforeResponse ==
    /\ \A j \in 1..Len(terminal) : terminal[j].kind = "char" => ClearedBefore(j)
    /\ (terminal # <<>> /\ terminal[Len(terminal)].kind = "char") => ~is_active

\* the same when the terminal refused no frame of an _animate task
C33_ClearBeforeResponseWithoutRenderFailure ==
    (\A t \in 1..Len(tasks) : tasks[t] # "failed") => C33_ClearBeforeResponse

(***************************************************************************)
(* C34 (postprocessing flag): however the call ends, the flag              *)
(* llm_client.enable_postprocessing has the value it had before the call,  *)
(* which with an LLM is the value line 121 saved.                          *)
(***************************************************************************)
C34_FlagRestored ==
    (outcome.kind # "none" /\ use_llm)
        => enable_postprocessing = original_postprocessing

\* the flag is restored when the call returns
C34_FlagRestoredOnReturn ==
    (outcome.kind = "returned" /\ use_llm)
        => enable_postprocessing = original_postprocessing

(***************************************************************************)
(* process_streaming_response (streaming.py:141-172): an async generator   *)
(* that creates a postprocessor, passes it the chunks of its source and    *)
(* finalizes it in a finally block.  gen holds the source (the chunks it   *)
(* yields, and whether it raises after them), the number of chunks taken,  *)
(* what the generator has yielded, the exception on its way out through    *)
(* the finally block, and what its consumer got in the end.  The consumer  *)
(* asks for the next value or closes the generator (aclose) at a yield.    *)
(* The calls on the postprocessor are logged in opLog.                     *)
(***************************************************************************)
MaxStreamChunks == 3

GenChunks == {<<>>, OpenTag, CloseTag, <<"X">>, <<"X", "<", "t", "h", "i", "n", "k">>}

GenStreams == UNION {[1..n -> GenChunks] : n \in 0..MaxStreamChunks}

SourceError == "OSError"

InitGen ==
    /\ gen \in [pc : {"pulling"}, stream : GenStreams, fails : BOOLEAN,
                taken : {0}, yielded : {<<>>}, pending : {"none"}, error : {"none"}]
    /\ adv = [pc |-> "unused"]

\* the generator with its postprocessor and the calls made on it
Gen == [gen |-> gen, log |-> opLog, fields |-> Fields]

SetGen(b) ==
    /\ gen' = b.gen
    /\ opLog' = b.log
    /\ SetFields(b.fields)

\* the generator as it would be if it ended quietly after its finally block
after_finally_Swallow(b, closing) ==
    [b EXCEPT !.gen.pc = IF closing THEN "closed" ELSE "done",
              !.gen.pending = "none"]

\* the end of the finally block: the exception on its way out goes on to the
\* consumer, a close ends, and otherwise the generator is exhausted
after_finally(b, closing) ==
    IF closing
    THEN [b EXCEPT !.gen.pc = "closed", !.gen.pending = "none"]
    ELSE IF b.gen.pending # "none"
    THEN [b EXCEPT !.gen.pc = "raised", !.gen.error = b.gen.pending,
                   !.gen.pending = "none"]
    ELSE [b EXCEPT !.gen.pc = "done"]

\* the generator as it would be with finalize() after the loop and no
\* finally block
run_finally_NoFinally(b, e, closing) ==
    IF closing \/ b.gen.pending # "none"
    THEN after_finally(b, closing)
    ELSE LET c == [b EXCEPT !.log = Append(@, e), !.fields = e.post]
         IN  IF e.ret = <<>> THEN after_finally(c, closing)
             ELSE [c EXCEPT !.gen.yielded = Append(@, e.ret),
                            !.gen.pc = "yield_final"]

\* lines 168-172: finalize() is called (e is that call) and its output, if
\* any, yielded; a yield while the generator is being closed is a
\* RuntimeError for the closer
run_finally(b, e, closing) ==
    LET c == [b EXCEPT !.log = Append(@, e), !.fields = e.post]
    IN  IF e.ret = <<>> THEN after_finally(c, closing)
        ELSE IF closing
        THEN [c EXCEPT !.gen.pc = "raised", !.gen.error = "RuntimeError",
                       !.gen.pending = "none"]
        ELSE [c EXCEPT !.gen.yielded = Append(@, e.ret),
                       !.gen.pc = "yield_final"]

\* the call of op the generator makes on its postprocessor
GenCall(op, chunk) == CallOn(op, chunk, Fields, remove_thinking)

\* lines 163-167: the source yields its next chunk; an empty chunk is skipped
\* (no call is made), and otherwise e is the call of process_chunk on it, whose
\* output is yielded unless it is empty
take_chunk(b, e) ==
    LET chunk == b.gen.stream[b.gen.taken + 1]
        t == [b EXCEPT !.gen.taken = @ + 1]
    IN  IF chunk = <<>> THEN t
        ELSE LET c == [t EXCEPT !.log = Append(@, e), !.fields = e.post]
             IN  IF e.ret = <<>> THEN c
                 ELSE [c EXCEPT !.gen.yielded = Append(@, e.ret),
                                !.gen.pc = "yield_chunk"]

GenUnchanged ==
    /\ UNCHANGED <<remove_thinking, callback_calls, input, fed, nChunks,
                   visible, emittedPos, transitions, lastCall, finalized, finalOut>>
    /\ UNCHANGED <<animVars, sessVars, callVars, loopVars, adv>>

\* the generator is waiting for its source, which yields a chunk
GenChunk ==
    /\ gen.pc = "pulling"
    /\ gen.taken < Len(gen.stream)
    /\ \E g \in {Gen}, e \in {GenCall("process_chunk", gen.stream[gen.taken + 1])} :
          \E b \in {take_chunk(g, e)} : SetGen(b)
    /\ GenUnchanged

\* the generator is waiting for its source, which ends or raises
GenSourceEnd ==
    /\ gen.pc = "pulling"
    /\ gen.taken = Len(gen.stream)
    /\ \E g \in {[Gen EXCEPT !.gen.pending = IF gen.fails THEN SourceError ELSE "none"]},
          e \in {GenCall("finalize", <<>>)} :
          \E b \in {run_finally(g, e, FALSE)} : SetGen(b)
    /\ GenUnchanged

\* the consumer asks for the next value
GenNext ==
    /\ gen.pc \in {"yield_chunk", "yield_final"}
    /\ \E g \in {Gen} :
          \E b \in {IF gen.pc = "yield_chunk"
                   THEN [g EXCEPT !.gen.pc = "pulling"]
                   ELSE after_finally(g, FALSE)} : SetGen(b)
    /\ GenUnchanged

\* the consumer closes the generator: GeneratorExit is raised at the yield
GenClose ==
    /\ gen.pc \in {"yield_chunk", "yield_final"}
    /\ \E g \in {Gen}, e \in {GenCall("finalize", <<>>)} :
          \E b \in {IF gen.pc = "yield_chunk"
                   THEN run_finally(g, e, TRUE)
                   ELSE after_finally(g, TRUE)} : SetGen(b)
    /\ GenUnchanged

InitStreaming ==
    /\ \E rt \in BOOLEAN : InitPostprocessor(rt)
    /\ InitStream({<<>>})
    /\ InitAnimator /\ InitCallers(0) /\ SessionVarsUnused
    /\ opLog = <<>>
    /\ lPc = "unused" /\ conversation_history = <<>> /\ entered = <<>>
    /\ nLines = 0 /\ screen = <<>> /\ sent = <<>>
    /\ InitGen

NextStreaming == GenChunk \/ GenSourceEnd \/ GenNext \/ GenClose

SpecStreaming == InitStreaming /\ [][NextStreaming]_vars

NotEmpty(text) == text # <<>>

\* the texts the calls of log returned, the empty ones left out
NonEmptyRets(log) == SelectSeq([j \in 1..Len(log) |-> log[j].ret], NotEmpty)

\* the chunks among the first n of the source that are not empty
ChunksFed(n) == SelectSeq(SubSeq(gen.stream, 1, n), NotEmpty)

\* process_chunk on each of chunks, in order
ChunkCalls(chunks) ==
    [j \in 1..Len(chunks) |-> [op |-> "process_chunk", chunk |-> chunks[j]]]

FinalizeCall == [op |-> "finalize", chunk |-> <<>>]

\* the generator has ended and was not closed by its consumer
GenRanOut == gen.pc \in {"done", "raised"} /\ gen.error # "RuntimeError"

(***************************************************************************)
(* C31 (source error): when the source raises after its chunks, the        *)
(* generator has yielded the non-empty outputs of process_chunk for these  *)
(* chunks, in order, then the output of finalize() if not empty, and the   *)
(* consumer gets the error of the source, after all of them.               *)
(***************************************************************************)
C31_ErrorAfterOutputs ==
    /\ gen.error # "none" => gen.pc = "raised"
    /\ (gen.fails /\ GenRanOut) =>
          /\ gen.pc = "raised"
          /\ gen.error = SourceError
          /\ gen.taken = Len(gen.stream)
          /\ gen.yielded =
                 NonEmptyRets(Replay(Append(ChunkCalls(ChunksFed(Len(gen.stream))),
                                            FinalizeCall),
                                     FreshFields, remove_thinking))

\* the source raised after three chunks, one of them empty; two outputs and
\* the output of finalize() were yielded before the error
C31_Witness ==
    /\ gen.fails /\ gen.pc = "raised" /\ gen.error = SourceError
    /\ Len(gen.stream) = 3
    /\ \E j \in 1..3 : gen.stream[j] = <<>>
    /\ Len(gen.yielded) = 3
    /\ opLog[Len(opLog)].op = "finalize" /\ opLog[Len(opLog)].ret # <<>>

(***************************************************************************)
(* C32 (finalize once, in order): the calls on the postprocessor are       *)
(* process_chunk for the non-empty chunks taken from the source, in the    *)
(* order of arrival, followed, once the generator has left its loop on     *)
(* any path, by exactly one finalize(); what was yielded are the non-empty *)
(* results of these calls in the order of the calls.                       *)
(***************************************************************************)
C32_FinalizeOnceInOrder ==
    LET called == [j \in 1..Len(opLog) |-> [op |-> opLog[j].op, chunk |-> opLog[j].chunk]]
        delivered == IF gen.error = "RuntimeError"
                     THEN SubSeq(opLog, 1, Len(opLog) - 1)
                     ELSE opLog
    IN  /\ called = IF gen.pc \in {"pulling", "yield_chunk"}
                    THEN ChunkCalls(ChunksFed(gen.taken))
                    ELSE Append(ChunkCalls(ChunksFed(gen.taken)), FinalizeCall)
        /\ gen.yielded = NonEmptyRets(delivered)

\* the source raised after two chunks were processed, and finalize() was
\* called after them
C32_Witness ==
    /\ gen.fails /\ gen.pc = "raised" /\ gen.error = SourceError
    /\ Len(opLog) = 3
    /\ opLog[1].op = "process_chunk" /\ opLog[2].op = "process_chunk"
    /\ opLog[3].op = "finalize"
    /\ gen.yielded # <<>>

\* the consumer closed the generator at a yield, and finalize() was called
C32_WitnessClosed ==
    /\ gen.pc = "closed"
    /\ gen.taken < Len(gen.stream)
    /\ opLog[Len(opLog)].op = "finalize"

(***************************************************************************)
(* remove_thinking_tokens_advanced (helpers.py:38-103), one step for each  *)
(* pass through its outer loop (lines 54-88) and through its inner loop    *)
(* (lines 69-88).  adv holds the argument, the locals i, search_pos,       *)
(* nest_level and result (joined), the value of i when the pass of the     *)
(* outer loop under way began, the number of passes begun, the value       *)
(* returned.  At most MaxRounds passes of the outer loop are followed.     *)
(***************************************************************************)
MaxRounds == 3

AdvInputs == HelperInputs

\* text.lower().find(pat, i)
FindFrom(text, pat, i) ==
    LET r == Find(text, pat, i)
    IN  IF r < 0 THEN -1 ELSE i + r

InitAdv ==
    /\ adv \in [pc : {"start"}, text : AdvInputs, i : {0}, search_pos : {0},
                nest_level : {0}, result : {<<>>}, i_before : {0}, rounds : {0},
                ret : {<<>>}]
    /\ gen = [pc |-> "unused"]

\* lines 90-103: the pieces are joined and cleaned, and returned
adv_return(a) ==
    [a EXCEPT !.pc = "done", !.ret = Strip(CollapseNewlines(a.result))]

\* one test of 'while i < length' and, if it passes, lines 55-67
adv_outer(a) ==
    IF a.i >= Len(a.text) THEN adv_return(a)
    ELSE LET think_start == FindFrom(a.text, OpenTag, a.i)
             n == [a EXCEPT !.i_before = a.i, !.rounds = @ + 1]
         IN  IF think_start = -1
             THEN adv_return([n EXCEPT !.result = @ \o Slice(a.text, a.i, Len(a.text))])
             ELSE [n EXCEPT !.result = @ \o Slice(a.text, a.i, think_start),
                            !.search_pos = think_start + OpenSkip,
                            !.nest_level = 1,
                            !.pc = "inner"]

\* one test of 'while search_pos < length and nest_level > 0' and, if it
\* passes, lines 70-88
adv_inner(a) ==
    IF ~(a.search_pos < Len(a.text) /\ a.nest_level > 0)
    THEN [a EXCEPT !.pc = "outer"]
    ELSE LET next_open == FindFrom(a.text, OpenTag, a.search_pos)
             next_close == FindFrom(a.text, CloseTag, a.search_pos)
         IN  IF next_close = -1
             THEN [a EXCEPT !.i = Len(a.text), !.pc = "outer"]
             ELSE IF next_open # -1 /\ next_open < next_close
             THEN [a EXCEPT !.nest_level = @ + 1,
                            !.search_pos = next_open + OpenSkip]
             ELSE IF a.nest_level - 1 = 0
             THEN [a EXCEPT !.nest_level = 0, !.i = next_close + CloseSkip]
             ELSE [a EXCEPT !.nest_level = @ - 1,
                            !.search_pos = next_close + CloseSkip]

AdvUnchanged ==
    /\ UNCHANGED <<ppVars, animVars, sessVars, callVars, lifeVars, loopVars>>
    /\ UNCHANGED gen

\* lines 48-53
AdvStart ==
    /\ adv.pc = "start"
    /\ adv' = IF adv.text = <<>> THEN [adv EXCEPT !.pc = "done", !.ret = adv.text]
              ELSE [adv EXCEPT !.pc = "outer"]
    /\ AdvUnchanged

AdvOuter ==
    /\ adv.pc = "outer"
    /\ adv.rounds < MaxRounds
    /\ adv' = adv_outer(adv)
    /\ AdvUnchanged

AdvInner ==
    /\ adv.pc = "inner"
    /\ adv' = adv_inner(adv)
    /\ AdvUnchanged

InitAdvanced ==
    /\ InitPostprocessor(TRUE) /\ InitStream({<<>>})
    /\ InitAnimator /\ InitCallers(0) /\ SessionVarsUnused
    /\ opLog = <<>>
    /\ lPc = "unused" /\ conversation_history = <<>> /\ entered = <<>>
    /\ nLines = 0 /\ screen = <<>> /\ sent = <<>>
    /\ InitAdv

NextAdvanced == AdvStart \/ AdvOuter \/ AdvInner

SpecAdvanced == InitAdvanced /\ [][NextAdvanced]_vars

(***************************************************************************)
(* C36 (termination): every pass through the outer loop that comes back to *)
(* the loop test has moved i forward, so that the loop ends after at most  *)
(* len(text) passes; and for a text that ends inside a block the value     *)
(* returned is the cleaned text before the open marker left unmatched.     *)
(***************************************************************************)
\* a pass of the outer loop has come back to the loop test
PassEnded == adv.pc = "outer" /\ adv.rounds > 0

C36_Terminates ==
    /\ PassEnded => adv.i > adv.i_before
    /\ (adv.pc = "done" /\ Ref(adv.text).depth > 0 /\ ~Ref(adv.text).stray)
          => adv.ret = Strip(CollapseNewlines(Ref(adv.text).out))

\* the last characters of text are an open or a close marker
EndsWithMarker(text) ==
    \/ MatchAt(text, OpenTag, Len(text) - Len(OpenTag))
    \/ MatchAt(text, CloseTag, Len(text) - Len(CloseTag))

\* when the call returns for a text that ends inside a block, it returns the
\* text outside the blocks
C36_ReturnedTextOutsideBlocks ==
    (adv.pc = "done" /\ Ref(adv.text).depth > 0 /\ ~Ref(adv.text).stray)
        => adv.ret = Strip(CollapseNewlines(Ref(adv.text).out))

\* such a call has returned
C36_ReturnedWitness ==
    adv.pc = "done" /\ Ref(adv.text).depth > 0 /\ ~Ref(adv.text).stray /\ adv.ret # <<>>

\* i moves forward in every pass unless the text ends with a marker
C36_AdvancesUnlessMarkerAtEnd ==
    (PassEnded /\ ~EndsWithMarker(adv.text)) => adv.i > adv.i_before

\* a pass that has not moved i is followed by the same pass again
C36_StuckForEver ==
    (PassEnded /\ adv.i = adv.i_before /\ adv.rounds >= 2)
        => \E piece \in {Slice(adv.text, adv.i, FindFrom(adv.text, OpenTag, adv.i))} :
              /\ Len(adv.result) = adv.rounds * Len(piece)
              /\ adv.search_pos >= Len(adv.text)
              /\ adv.nest_level > 0

====
